---------------------------- MODULE Spec2Model ----------------------------
(***************************************************************************)
(* ViNetwork: the central store (StateManager), the request reconciler     *)
(* (NetworkCapture) and the modal key interpreter (KeyboardHandler).       *)
(*                                                                         *)
(* Arrays of the program are JavaScript objects with identity.  The array  *)
(* currently held in this.state.requests is state.requests (a sequence of  *)
(* indices into the heap objs of request records); every other holder of   *)
(* an array reference (the memo cache, the Fuse index, the closure of the  *)
(* finished-batch callback) holds a Ref: live (the very array the store    *)
(* holds now, so in-place push/splice are seen through it) or frozen (an   *)
(* array the store has let go of, with the content it had then).           *)
(***************************************************************************)
EXTENDS Integers, Sequences, FiniteSets, TLC

\* ------------------------------------------------------------- bounds
\* The cap of the request collection.  The source sets 1000
\* (FilterManager.ts:445); the model scales it down so that overflow happens.
MAX_REQUESTS == 2
\* setState calls that can pile up before a frame.
MaxPending == 3
\* Spec, the capture side: initiated events (request records ever created),
\* responseReceived / loadingFinished / loadingFailed events, and key presses
\* and clicks in one behaviour.
MaxObjs == 3
MaxUpdates == 2
MaxKeys == 2
\* SpecKeys, the keyboard side: initiated events, key presses and clicks.
KeysMaxObjs == 2
KeysMaxKeys == 3
\* SpecView, the filtered view: initiated events, key presses and clicks.
ViewMaxObjs == 3
ViewMaxKeys == 5
\* SpecFetch, the lazy body fetch: initiated events, key presses, and the
\* fetchResponseBodyLazy calls that can wait for their result at once.
FetchMaxObjs == 2
FetchMaxKeys == 3
MaxCalls == 2
\* SpecAttach, the attachment: initiated events, detach notifications and
\* panel-shown events.
AttachMaxObjs == 1
MaxDetaches == 1
MaxShown == 1
\* SpecJson, the JSON tree of the preview panel: key presses and clicks on
\* nodes.
JsonMaxKeys == 3
JsonMaxClicks == 2

\* NetworkCapture.MAX_RETRIES
MAX_RETRIES == 3

\* ------------------------------------------------------------- values
Null == "null"
\* A field of a record that was never assigned.
Undefined == "undefined"

AppModes == {"normal", "search", "filter", "inspect", "copy"}

\* The resource types the modelled traffic uses (ResourceType).
DOC == "document"
JS == "script"

\* The payloads of Network.requestWillBeSent the capture source sends:
\* requestId, params.type, params.frameId and request.url.
RequestParams ==
  { [requestId |-> "a", type |-> "Document", frameId |-> "F1", url |-> "x/ab"],
    [requestId |-> "b", type |-> "Script",   frameId |-> "F1", url |-> "x/ab.js"],
    [requestId |-> "c", type |-> "Document", frameId |-> "F2", url |-> "x/zz"] }

\* The search texts typed into the search input.
Queries == {"", "ab"}

\* mapResourceType
mapResourceType(type) ==
  CASE type = "Document" -> DOC
    [] type = "Script" -> JS
    [] OTHER -> "other"

\* What Fuse's matcher says of a url for a query: 0 no match, otherwise the
\* rank class (2 ranks before 1).  "x/ab" matches "ab" better than the longer
\* "x/ab.js"; "x/zz" does not match.
Relevance(url, query) ==
  IF query # "ab" THEN 0
  ELSE CASE url = "x/ab" -> 2
         [] url = "x/ab.js" -> 1
         [] OTHER -> 0

\* ------------------------------------------------------------- helpers
Range(s) == {s[i] : i \in DOMAIN s}

Max(a, b) == IF a >= b THEN a ELSE b
Min(a, b) == IF a <= b THEN a ELSE b

\* Array.prototype.splice(start, count) on a sequence; start is 0-based.
Splice(s, start, count) ==
  [i \in 1..(Len(s) - Min(count, Max(0, Len(s) - start))) |->
     IF i <= start THEN s[i] ELSE s[i + Min(count, Max(0, Len(s) - start))]]

\* Array.prototype.filter
RECURSIVE FilterSeq(_, _)
FilterSeq(s, keep) ==
  IF s = <<>> THEN <<>>
  ELSE IF Head(s) \in keep THEN <<Head(s)>> \o FilterSeq(Tail(s), keep)
       ELSE FilterSeq(Tail(s), keep)

\* ------------------------------------------------------------- array refs
LiveRef == [live |-> TRUE, items |-> <<>>]
Frozen(items) == [live |-> FALSE, items |-> items]
\* The value a reference field has while it refers to no array (null).
NoRef == Frozen(<<>>)

VARIABLES
  state,            \* StateManager.state (AppState)
  objs,             \* the NetworkRequest records ever created, by creation order
  pendingUpdates,   \* StateManager.pendingUpdates
  cache,            \* StateManager.filteredRequestsCache
  fuse,             \* StateManager.fuseIndex and lastFuseIndexLength
  rafQueue,         \* requestAnimationFrame callbacks registered, in order
  frameLeft,        \* callbacks of the frame being run that are still to run
  capture,          \* NetworkCapture: its fields, the batch closure's state
                    \* and the message it shows in the table
  calls,            \* fetchResponseBodyLazy calls whose promise is pending
  conn,             \* the debugger: the target, the commands and timers
                    \* of the attachment that are in flight
  preview,          \* PreviewPane: lastRequestId, lastPreviewTab
  kbd,              \* KeyboardHandler: keySequence, sequenceTimeout
  viewer,           \* JsonViewer: currentData and the nodes its container shows
  headersList,      \* HeadersList: headers, selectedIndex, collapsedSections,
                    \* lastRequestId, lastSelectedIndex
  table,            \* NetworkTable: its fields, its scroll container and the
                    \* rows its last render materialised
  debounced,        \* the search input's debounced call waiting for its 200 ms
  budget,           \* events left to the environment in this behaviour
  hist              \* history of the last step, for stating the claims

vars == <<state, objs, pendingUpdates, cache, fuse, rafQueue, frameLeft,
          capture, calls, conn, preview, kbd, viewer, headersList, table,
          debounced, budget, hist>>

\* The program state the operations work on, as one record.
World ==
  [state |-> state, objs |-> objs, pendingUpdates |-> pendingUpdates,
   cache |-> cache, fuse |-> fuse, rafQueue |-> rafQueue,
   capture |-> capture, calls |-> calls, conn |-> conn,
   preview |-> preview, kbd |-> kbd, viewer |-> viewer,
   headersList |-> headersList, table |-> table,
   rafId |-> \E i \in DOMAIN rafQueue : rafQueue[i] = "flush",
   notified |-> 0, dropped |-> 0, evicted |-> 0, copied |-> <<>>,
   cleared |-> {}]

Deref(W, ref) == IF ref.live THEN W.state.requests ELSE ref.items

\* this.state.requests = <another array>: the holders of the old array keep it.
Detach(W, ref) == IF ref.live THEN Frozen(W.state.requests) ELSE ref

AssignRequests(W, items) ==
  [W EXCEPT
     !.cache.requests = Detach(W, @),
     !.fuse.docs = Detach(W, @),
     !.capture.batchRequests = Detach(W, @),
     !.state.requests = items]

\* ------------------------------------------------------------- StateManager
\* setState: queue the update; register the flush callback unless one is
\* registered (or running).
SetState(W, updates) ==
  LET W1 == [W EXCEPT !.pendingUpdates = Append(@, updates)]
  IN IF ~W.rafId
       THEN [W1 EXCEPT !.rafId = TRUE, !.rafQueue = Append(@, "flush")]
       ELSE W1

\* createFuseIndex: the records are built from the array's content now; the
\* index keeps the array itself as its docs.
CreateFuseIndex(W) ==
  [built |-> TRUE, records |-> W.state.requests, docs |-> LiveRef,
   lastLength |-> Len(W.state.requests)]

\* Fuse.search(query).map(r => r.item): the records that match, best rank
\* first and by position within a rank; the item of position i is docs[i].
RankHits(W, query, rank) ==
  LET recs == W.fuse.records
      docs == Deref(W, W.fuse.docs)
      Hit(i) == i <= Len(docs) /\ Relevance(W.objs[recs[i]].url, query) = rank
      F[i \in 0..Len(recs)] ==
        IF i = 0 THEN <<>>
        ELSE IF Hit(i) THEN Append(F[i - 1], docs[i]) ELSE F[i - 1]
  IN F[Len(recs)]

FuseSearch(W, query) == RankHits(W, query, 2) \o RankHits(W, query, 1)

\* The type filter of getFilteredRequests.
TypeFilter(W, items) ==
  FilterSeq(items, {o \in DOMAIN W.objs : W.objs[o].type \in W.state.filters})

CacheValid(W) ==
  /\ W.cache.hasRequests
  /\ W.cache.lastRequestsLength = Len(W.state.requests)
  /\ W.cache.lastSearchQuery = W.state.searchQuery
  /\ W.cache.lastTypesSize = Cardinality(W.state.filters)

\* getFilteredRequests past the cache check and the rebuild of the Fuse index
\* (W1 is the store with the index it searches): base results, type filter,
\* cache update.
ComputeFiltered(W1) ==
  LET searched == W1.state.searchQuery # ""
      baseResults == IF searched THEN FuseSearch(W1, W1.state.searchQuery)
                     ELSE W1.state.requests
      typed == Cardinality(W1.state.filters) > 0
      filtered == IF typed THEN Frozen(TypeFilter(W1, baseResults))
                  ELSE IF searched THEN Frozen(baseResults)
                  ELSE LiveRef
  IN [W1 EXCEPT !.cache =
        [hasRequests |-> TRUE,
         requests |-> filtered,
         lastRequestsLength |-> Len(W1.state.requests),
         lastSearchQuery |-> W1.state.searchQuery,
         lastTypesSize |-> Cardinality(W1.state.filters)]]

\* getFilteredRequests: the store after the call (memo cache and Fuse index
\* updated); the array it returns is then cache.requests.
GetFilteredRequests(W) ==
  IF CacheValid(W) THEN W
  ELSE ComputeFiltered(
         IF ~W.fuse.built \/ W.fuse.lastLength # Len(W.state.requests)
           THEN [W EXCEPT !.fuse = CreateFuseIndex(W)]
           ELSE W)

\* The array the cache holds.
CachedRequests(W) == Deref(W, W.cache.requests)

\* The array a getFilteredRequests() call made now returns.
FilteredRequests(W) == CachedRequests(GetFilteredRequests(W))

\* invalidateFilterCache
InvalidateFilterCache(W) ==
  [W EXCEPT !.cache.hasRequests = FALSE, !.cache.requests = NoRef,
            !.fuse.built = FALSE, !.fuse.records = <<>>, !.fuse.docs = NoRef]

\* ------------------------------------------------------------- JsonViewer
\* JSON values: an object or an array with its entries <<key, value>> in
\* order (an array's keys are its indices), or a primitive.
Obj(entries) == [type |-> "object", entries |-> entries, lit |-> ""]
Arr(items) ==
  [type |-> "array", lit |-> "",
   entries |-> [i \in DOMAIN items |-> <<ToString(i - 1), items[i]>>]]
Num(lit) == [type |-> "number", entries |-> <<>>, lit |-> lit]
JsonNull == [type |-> "null", entries |-> <<>>, lit |-> "null"]
\* JsonViewer.currentData before the first render (null, no JSON value).
NoData == [type |-> "none", entries |-> <<>>, lit |-> ""]

IsContainer(value) == value.type \in {"object", "array"}

\* state.jsonExpanded, a Map: its entries as pairs <<path, flag>>.
\* jsonExpanded.get(path) ?? true
ExpandedGet(entries, path) ==
  IF \E e \in entries : e[1] = path
    THEN (CHOOSE e \in entries : e[1] = path)[2]
    ELSE TRUE

\* jsonExpanded.set(path, flag)
ExpandedSet(entries, path, flag) ==
  {e \in entries : e[1] # path} \cup {<<path, flag>>}

\* flattenJson's nodePath
NodePath(obj, path, key) ==
  IF path # ""
    THEN (IF obj.type = "array" THEN path \o "[" \o key \o "]"
          ELSE path \o "." \o key)
    ELSE key

\* flattenJson: a null or a primitive is one node (this happens for the whole
\* document only, with path ''); a container gives a node for each entry,
\* followed by the nodes of the entry's value when the entry is expanded and
\* its value is a container.
RECURSIVE FlattenJson(_, _, _, _)
RECURSIVE FlattenEntries(_, _, _, _, _)
FlattenEntries(expanded, obj, path, level, i) ==
  IF i > Len(obj.entries) THEN <<>>
  ELSE
    LET key == obj.entries[i][1]
        value == obj.entries[i][2]
        nodePath == NodePath(obj, path, key)
        isExpanded == ExpandedGet(expanded, nodePath)
        node == [key |-> key, value |-> value, type |-> value.type,
                 path |-> nodePath, isExpanded |-> isExpanded, level |-> level]
    IN <<node>>
         \o (IF isExpanded /\ IsContainer(value)
               THEN FlattenJson(expanded, value, nodePath, level + 1)
               ELSE <<>>)
         \o FlattenEntries(expanded, obj, path, level, i + 1)

FlattenJson(expanded, obj, path, level) ==
  IF ~IsContainer(obj)
    THEN <<[key |-> IF obj.type = "null" THEN "null" ELSE "",
            value |-> obj, type |-> obj.type,
            path |-> IF path = "" THEN "root" ELSE path,
            isExpanded |-> FALSE, level |-> level]>>
    ELSE FlattenEntries(expanded, obj, path, level, 1)

\* JsonViewer.render: the container shows the nodes of the data, which are
\* also handed to the store.
JsonRender(W, data) ==
  LET nodes == FlattenJson(W.state.jsonExpanded, data, "", 0)
  IN [SetState(W, [flattenedJsonNodes |-> nodes])
        EXCEPT !.viewer = [currentData |-> data, nodes |-> nodes]]

\* The end of toggleNode, expandCurrentNode and collapseCurrentNode, the Map
\* having been changed in place: setState is handed the same Map, and the
\* data is rendered again.
JsonRerender(W) ==
  LET W1 == SetState(W, [jsonExpanded |-> "state.jsonExpanded"])
  IN IF W1.viewer.currentData # NoData
       THEN JsonRender(W1, W1.viewer.currentData)
       ELSE W1

\* toggleNode
ToggleNode(W, path) ==
  JsonRerender(
    [W EXCEPT !.state.jsonExpanded =
       ExpandedSet(@, path, ~ExpandedGet(@, path))])

\* The JSON tree.  The bodies the preview panel shows: nested objects with
\* an empty object and an array, and an object one of whose keys has a dot.
DocNested ==
  Obj(<< <<"a", Obj(<< <<"b", Obj(<< <<"c", Num("1")>> >>)>>,
                      <<"e", Obj(<<>>)>> >>)>>,
         <<"d", Arr(<<Num("2"), Obj(<< <<"f", Num("3")>> >>)>>)>> >>)

DocDotted ==
  Obj(<< <<"a", Obj(<< <<"b", Obj(<< <<"c", Num("1")>> >>)>> >>)>>,
         <<"a.b", Obj(<< <<"d", Num("2")>> >>)>> >>)

\* A top-level array, with an array and an object among its items.
DocArray ==
  Arr(<<Num("1"), Arr(<<Num("2")>>), Obj(<< <<"f", Num("3")>> >>)>>)

\* Keys that contain '.' or '[n]', at the top level and below it.
DocKeys ==
  Obj(<< <<"a", Num("1")>>, <<"a.b", Num("2")>>,
         <<"x", Arr(<<Num("3")>>)>>, <<"x[0]", Num("4")>>,
         <<"p", Obj(<< <<"q.r", Num("5")>> >>)>> >>)

\* JSON.parse of the body text Network.getResponseBody answers with.
BodyDocument(body) ==
  CASE body = "dotted" -> DocDotted
    [] body = "array" -> DocArray
    [] body = "keys" -> DocKeys
    [] OTHER -> DocNested

Documents == {BodyDocument(body) : body \in {"json", "dotted"}}

\* ------------------------------------------------------------- PreviewPane
\* responseBodyCache, a Map: its entries as pairs <<requestId, body>>.
CacheHas(W, requestId) ==
  \E e \in W.capture.responseBodyCache : e[1] = requestId

CacheGet(W, requestId) ==
  (CHOOSE e \in W.capture.responseBodyCache : e[1] = requestId)[2]

CacheSet(entries, requestId, body) ==
  {e \in entries : e[1] # requestId} \cup {<<requestId, body>>}

\* What #response-body and #json-viewer show: nothing, a loading text, or
\* what was made of the body of the request record `of`.
PanelEmpty == [of |-> 0, text |-> ""]
PanelLoading == [of |-> 0, text |-> "Loading"]
PanelBody(o, text) == [of |-> o, text |-> text]

\* The body of record o is written into the panel of the tab: the response
\* panel shows its text; the preview panel hands an object to the JSON
\* viewer and shows 'Not a JSON response' for anything else.
ShowBody(W, o, tab, body) ==
  IF tab = "response"
    THEN [W EXCEPT !.preview.response = PanelBody(o, body)]
  ELSE IF body # Null
    THEN JsonRender([W EXCEPT !.preview.json = PanelBody(o, body)],
                    BodyDocument(body))
  ELSE [W EXCEPT !.preview.json = PanelBody(o, "Not a JSON response"),
                 !.viewer.nodes = <<>>]

\* fetchResponseBodyLazy up to its first await, called for the request record
\* o by renderResponse or renderPreview (tab), whose continuation stores the
\* body it is given in the record and writes it into its panel: with the body
\* cached the promise is resolved already and the continuation is the next to
\* run; with a fetch of the id in flight the call waits on its 50 ms
\* interval; otherwise the id is marked and Network.getResponseBody is sent.
FetchResponseBodyLazy(W, o, tab) ==
  IF CacheHas(W, W.objs[o].id)
    THEN [W EXCEPT !.calls = Append(@, [req |-> o, id |-> W.objs[o].id,
                                         kind |-> "cached", tab |-> tab])]
  ELSE IF W.objs[o].id \in W.capture.fetchingBodies
    THEN [W EXCEPT !.calls = Append(@, [req |-> o, id |-> W.objs[o].id,
                                         kind |-> "poll", tab |-> tab])]
  ELSE [W EXCEPT !.capture.fetchingBodies = @ \cup {W.objs[o].id},
                 !.calls = Append(@, [req |-> o, id |-> W.objs[o].id,
                                      kind |-> "fetch", tab |-> tab])]

\* renderResponse: a record that has a responseBody is shown as it is; for
\* any other the loading text is shown and the body is fetched.
RenderResponse(W, o) ==
  IF W.objs[o].responseBody # Undefined
    THEN ShowBody(W, o, "response", W.objs[o].responseBody)
    ELSE FetchResponseBodyLazy([W EXCEPT !.preview.response = PanelLoading],
                               o, "response")

\* renderPreview: setState({ jsonSelectedIndex: 0 }), then as renderResponse
\* with the JSON viewer's container.
RenderPreviewBody(W, o) ==
  IF W.objs[o].responseBody # Undefined
    THEN ShowBody(W, o, "preview", W.objs[o].responseBody)
    ELSE FetchResponseBodyLazy([W EXCEPT !.preview.json = PanelLoading,
                                         !.viewer.nodes = <<>>],
                               o, "preview")

RenderPreview(W, o) ==
  RenderPreviewBody(SetState(W, [jsonSelectedIndex |-> 0]), o)

\* The switch of PreviewPane.render over the tab.
RenderTab(W, o) ==
  CASE W.state.previewTab = "response" -> RenderResponse(W, o)
    [] W.state.previewTab = "preview" -> RenderPreview(W, o)
    [] OTHER -> W

\* renderEmpty
RenderEmpty(W) ==
  [W EXCEPT !.preview.response = PanelEmpty, !.preview.json = PanelEmpty,
            !.viewer.nodes = <<>>]

\* The promise of call k is resolved with body: the caller's continuation
\* stores it in the request record it holds (request.responseBody = body)
\* and writes it into its panel.
ResolveCall(W, k, body) ==
  ShowBody([W EXCEPT !.objs[W.calls[k].req].responseBody = body,
                     !.calls = Splice(@, k - 1, 1)],
           W.calls[k].req, W.calls[k].tab, body)

\* fetchResponseBodyLazy after its await, Network.getResponseBody having
\* answered with a body.
GetResponseBodySucceeded(W, k, body) ==
  ResolveCall([W EXCEPT
                 !.capture.responseBodyCache = CacheSet(@, W.calls[k].id, body),
                 !.capture.fetchingBodies = @ \ {W.calls[k].id}],
              k, body)

\* fetchResponseBodyLazy's catch, the command having failed.
GetResponseBodyFailed(W, k) ==
  ResolveCall([W EXCEPT !.capture.fetchingBodies = @ \ {W.calls[k].id}], k, Null)

\* The interval callback of a call that waits for a fetch in flight.
PollCache(W, k) ==
  IF CacheHas(W, W.calls[k].id)
    THEN ResolveCall(W, k, CacheGet(W, W.calls[k].id))
    ELSE W

\* The continuation of a call that found the body cached.
CachedReturned(W, k) == ResolveCall(W, k, CacheGet(W, W.calls[k].id))

\* PreviewPane.render, a subscriber: on a change of the selected request or
\* of the tab it re-renders the tab's content.
RenderSelected(W1) ==
  LET view == Deref(W1, W1.cache.requests)
      sel == W1.state.selectedIndex
  IN IF sel + 1 > Len(view)
       THEN [RenderEmpty(W1) EXCEPT !.preview.lastRequestId = ""]
       ELSE
         LET req == W1.objs[view[sel + 1]]
             requestChanged == W1.preview.lastRequestId # req.id
             tabChanged == W1.preview.lastPreviewTab # W1.state.previewTab
             W2 == IF tabChanged
                     THEN [W1 EXCEPT !.preview.lastPreviewTab = W1.state.previewTab]
                     ELSE W1
         IN IF requestChanged \/ tabChanged
              THEN [RenderTab(W2, view[sel + 1]) EXCEPT
                      !.preview.lastRequestId = req.id]
              ELSE W2

PreviewPaneRender(W) == RenderSelected(GetFilteredRequests(W))

\* notifyListeners: the subscribers run, each reading the filtered view
\* (StatusBar.update, HeadersList.render, CopyMenu.render, PreviewPane.render).
\* NetworkTable defers its render to a frame callback of its own, which reads
\* the filtered view once more and writes nothing to the store.
NotifyListeners(W) ==
  [PreviewPaneRender(W) EXCEPT !.notified = @ + 1]

\* addRequest, were the overflow taken from the end of the array.
AddRequestEvictNewest(W, o) ==
  LET pushed == Append(W.state.requests, o)
      toRemove == Len(pushed) - MAX_REQUESTS
  IN NotifyListeners(
       IF Len(pushed) > MAX_REQUESTS
         THEN [W EXCEPT
                 !.state.requests = Splice(pushed, Len(pushed) - toRemove, toRemove),
                 !.state.selectedIndex = IF @ < toRemove THEN 0 ELSE @ - toRemove,
                 !.evicted = toRemove]
         ELSE [W EXCEPT !.state.requests = pushed])

\* addRequest
AddRequest(W, o) ==
  LET pushed == Append(W.state.requests, o)
      toRemove == Len(pushed) - MAX_REQUESTS
  IN NotifyListeners(
       IF Len(pushed) > MAX_REQUESTS
         THEN [W EXCEPT
                 !.state.requests = Splice(pushed, 0, toRemove),
                 !.state.selectedIndex = IF @ < toRemove THEN 0 ELSE @ - toRemove,
                 !.evicted = toRemove]
         ELSE [W EXCEPT !.state.requests = pushed])

\* clearRequests
ClearRequests(W) ==
  NotifyListeners([AssignRequests(W, <<>>) EXCEPT
                     !.state.selectedIndex = 0,
                     !.cleared = @ \cup Range(W.state.requests)])

\* deleteRequest
DeleteRequest(W, index) ==
  LET rest == Splice(W.state.requests, index, 1)
  IN NotifyListeners(
       [W EXCEPT !.state.requests = rest,
                 !.state.selectedIndex =
                    IF @ >= Len(rest) THEN Max(0, Len(rest) - 1) ELSE @])

\* Object.assign({}, ...pendingUpdates): per field, the last update that
\* writes it.
Fields(updates) == UNION {DOMAIN updates[i] : i \in DOMAIN updates}

LastWriter(updates, f) ==
  CHOOSE i \in DOMAIN updates :
    /\ f \in DOMAIN updates[i]
    /\ \A j \in DOMAIN updates : f \in DOMAIN updates[j] => j <= i

MergeUpdates(updates) ==
  [f \in Fields(updates) |-> updates[LastWriter(updates, f)][f]]

\* The callback setState registers with requestAnimationFrame, up to its
\* notifyListeners call.
ApplyMerged(W) ==
  LET merged == MergeUpdates(W.pendingUpdates)
      written == DOMAIN merged
      \* this.state = { ...this.state, ...merged }; merged.filters and
      \* merged.jsonExpanded are the Set and the Map the state already holds,
      \* merged.requests a new array
      W1 == IF "requests" \in written THEN AssignRequests(W, merged.requests) ELSE W
      W2 == [W1 EXCEPT !.state =
               [f \in DOMAIN @ |->
                  IF f \in written \ {"requests", "filters", "jsonExpanded"}
                    THEN merged[f] ELSE @[f]]]
      W3 == IF "searchQuery" \in written \/ "filters" \in written
              THEN InvalidateFilterCache(W2) ELSE W2
      W4 == IF "searchQuery" \in written /\ "selectedIndex" \notin written
              THEN [W3 EXCEPT !.state.selectedIndex = 0] ELSE W3
  IN [W4 EXCEPT !.rafId = TRUE]

\* The end of the callback, W5 being the store the subscribers have left:
\* pendingUpdates = [] discards the calls they made, rafId = null.
EndFlush(W, W5) ==
  [W5 EXCEPT !.dropped = Len(W5.pendingUpdates) - Len(W.pendingUpdates),
             !.pendingUpdates = <<>>,
             !.rafId = FALSE]

\* The callback setState registers with requestAnimationFrame.
FlushPending(W) == EndFlush(W, NotifyListeners(ApplyMerged(W)))

\* ------------------------------------------------------------- HeadersList
\* getGeneralItems: the keys of the four rows of the General section.
GeneralItems ==
  <<"Request URL", "Request Method", "Status Code", "Resource Type">>

\* The header names of the events modelled: every request is sent with one
\* header, and a response (ResponseParams.headers) carries one.
RequestHeaderKeys == <<"accept">>

ResponseHeaderKeys(headers) ==
  IF headers = "none" THEN <<>> ELSE <<"content-type">>

HeaderSections == {"general", "request", "response"}

\* The HeaderItem records of a section's keys.
SectionItems(section, keys) ==
  [i \in DOMAIN keys |-> [section |-> section, key |-> keys[i]]]

\* buildHeadersList: the items of the sections that are not collapsed, in
\* the order general, request, response.
HeaderItems(collapsedSections, responseHeaders) ==
  (IF "general" \in collapsedSections THEN <<>>
   ELSE SectionItems("general", GeneralItems))
  \o (IF "request" \in collapsedSections THEN <<>>
      ELSE SectionItems("request", RequestHeaderKeys))
  \o (IF "response" \in collapsedSections THEN <<>>
      ELSE SectionItems("response", ResponseHeaderKeys(responseHeaders)))

BuildHeadersList(W, o) ==
  HeaderItems(W.headersList.collapsedSections, W.objs[o].responseHeaders)

\* The fields of HeadersList after construction (its first render found no
\* request).
InitHeadersList ==
  [headers |-> <<>>, selectedIndex |-> 0, collapsedSections |-> {},
   lastRequestId |-> "", lastSelectedIndex |-> -1]

\* HeadersList.render after its getFilteredRequests call, appState being the
\* state object the caller passed.
RenderHeaders(W, appState) ==
  LET requests == Deref(W, W.cache.requests)
      sel == appState.selectedIndex + 1
  IN IF sel \notin DOMAIN requests
       THEN [W EXCEPT !.headersList.lastRequestId = ""]
       ELSE
         LET o == requests[sel]
             requestChanged == W.headersList.lastRequestId # W.objs[o].id
             selectionChanged ==
               W.headersList.lastSelectedIndex # appState.headersSelectedIndex
             built == BuildHeadersList(W, o)
             beyond == /\ appState.headersSelectedIndex >= Len(built)
                       /\ Len(built) > 0
             W1 == [W EXCEPT
                      !.headersList.selectedIndex = appState.headersSelectedIndex,
                      !.headersList.lastSelectedIndex = appState.headersSelectedIndex]
         IN IF ~requestChanged /\ ~selectionChanged THEN W
            ELSE IF ~requestChanged THEN W1
            ELSE IF beyond
              THEN SetState([W1 EXCEPT !.headersList.headers = built,
                                       !.headersList.selectedIndex = Len(built) - 1,
                                       !.headersList.lastRequestId = W.objs[o].id],
                            [headersSelectedIndex |-> Len(built) - 1])
            ELSE [W1 EXCEPT !.headersList.headers = built,
                            !.headersList.lastRequestId = W.objs[o].id]

\* HeadersList.render, a subscriber; toggleSection calls it too.
HeadersListRender(W) ==
  IF W.state.previewTab # "headers" THEN W
  ELSE RenderHeaders(GetFilteredRequests(W), W.state)

\* HeadersList.moveSelection
HeadersMoveSelection(W, delta) ==
  IF Len(W.headersList.headers) = 0 THEN W
  ELSE LET index == Max(0, Min(Len(W.headersList.headers) - 1,
                               W.headersList.selectedIndex + delta))
       IN SetState([W EXCEPT !.headersList.selectedIndex = index],
                   [headersSelectedIndex |-> index])

\* HeadersList.toggleSection
ToggleSection(W, section) ==
  HeadersListRender(
    [W EXCEPT !.headersList.collapsedSections =
                IF section \in @ THEN @ \ {section} ELSE @ \cup {section}])

\* The header at selectedIndex, if there is one.
HasCurrentHeader(W) ==
  W.headersList.selectedIndex + 1 \in DOMAIN W.headersList.headers

CurrentSection(W) ==
  W.headersList.headers[W.headersList.selectedIndex + 1].section

\* HeadersList.collapseCurrentSection
CollapseCurrentSection(W) ==
  IF Len(W.headersList.headers) = 0 \/ ~HasCurrentHeader(W) THEN W
  ELSE IF CurrentSection(W) \notin W.headersList.collapsedSections
    THEN ToggleSection(W, CurrentSection(W))
  ELSE W

\* HeadersList.expandCurrentSection
ExpandCurrentSection(W) ==
  IF Len(W.headersList.headers) = 0 \/ ~HasCurrentHeader(W) THEN W
  ELSE IF CurrentSection(W) \in W.headersList.collapsedSections
    THEN ToggleSection(W, CurrentSection(W))
  ELSE W

\* ------------------------------------------------------------- NetworkTable
\* The height of the table's sticky header, and the row height the table
\* assumes until it has measured a row.
headerHeight == 32
rowHeight == 28

\* Math.ceil(a / b) for b > 0.
CeilDiv(a, b) == -((-a) \div b)

\* calculateVisibleRows
CalculateVisibleRows(clientHeight, heightToUse) ==
  LET containerHeight == IF clientHeight = 0 THEN 600 ELSE clientHeight
      availableHeight == containerHeight - headerHeight
  IN CeilDiv(availableHeight, heightToUse) + 3

\* The fields of NetworkTable after construction in a container of the given
\* height, whose rows measure actualRowHeight: calculateVisibleRows runs first,
\* with the estimated row height, then the empty list is rendered, then a row
\* is measured.
NewNetworkTable(clientHeight, actualRowHeight) ==
  [visibleRows |-> CalculateVisibleRows(clientHeight, rowHeight),
   actualRowHeight |-> actualRowHeight,
   scrollTop |-> 0, lastScrollTop |-> 0,
   lastRenderedRequests |-> LiveRef, lastSelectedIndex |-> 0,
   rafId |-> FALSE,
   clientHeight |-> clientHeight, containerScrollTop |-> 0, bodyHeight |-> 0,
   visibleStart |-> 0, visibleEnd |-> 0]

InitNetworkTable == NewNetworkTable(600, rowHeight)

\* The scroll container takes an offset: the browser keeps it within the
\* content (the header and the table body) that exceeds the container.
ClampScroll(T, offset) ==
  Max(0, Min(offset, Max(0, headerHeight + T.bodyHeight - T.clientHeight)))

\* scrollToSelectedInstant
ScrollToSelectedInstant(T, selectedIndex) ==
  LET heightToUse == T.actualRowHeight
      selectedTop == selectedIndex * heightToUse
      viewportTop == T.containerScrollTop
      viewportHeight == T.clientHeight - headerHeight
      viewportBottom == viewportTop + viewportHeight
  IN IF selectedTop < viewportTop
       THEN [T EXCEPT !.containerScrollTop = ClampScroll(T, selectedTop)]
     ELSE IF selectedTop + heightToUse > viewportBottom
       THEN [T EXCEPT !.containerScrollTop =
               ClampScroll(T, selectedTop - viewportHeight + heightToUse)]
     ELSE T

\* renderVirtualOptimized: the rows startIndex .. endIndex - 1 are
\* materialised and the table body gets the height of all rows.
RenderVirtualOptimized(T, total) ==
  LET heightToUse == T.actualRowHeight
      startIndex == Max(0, (T.scrollTop \div heightToUse) - 1)
      endIndex == Min(total, startIndex + T.visibleRows + 2)
      measuredTotal == IF endIndex > startIndex THEN endIndex * heightToUse ELSE 0
  IN [T EXCEPT !.visibleStart = startIndex, !.visibleEnd = endIndex,
               !.bodyHeight = Max(total * heightToUse, measuredTotal)]

\* renderSelectedOnly: the selected row alone is shown.
RenderSelectedOnly(T, total, selectedIndex) ==
  IF selectedIndex < total
    THEN [T EXCEPT !.visibleStart = selectedIndex, !.visibleEnd = selectedIndex + 1]
    ELSE [T EXCEPT !.visibleStart = 0, !.visibleEnd = 0]

\* The table as it shows a list of total rows from the top, the first row
\* selected.
TableShowing(T, total) == RenderVirtualOptimized(T, total)

\* NetworkTable.render after its getFilteredRequests call.
RenderTable(W) ==
  LET T == W.table
      requests == W.cache.requests
      total == Len(Deref(W, requests))
      requestsChanged == T.lastRenderedRequests # requests
      selectionChanged == T.lastSelectedIndex # W.state.selectedIndex
      scrollChanged == T.scrollTop # T.lastScrollTop
      T1 == [T EXCEPT !.lastRenderedRequests = requests,
                      !.lastSelectedIndex = W.state.selectedIndex,
                      !.lastScrollTop = T.scrollTop]
      scrolled == ScrollToSelectedInstant(T1, W.state.selectedIndex)
      T2 == [scrolled EXCEPT !.scrollTop = scrolled.containerScrollTop,
                             !.lastScrollTop = scrolled.containerScrollTop]
  IN IF ~requestsChanged /\ ~selectionChanged /\ ~scrollChanged THEN W
     ELSE IF W.state.isInspectExpanded
       THEN [W EXCEPT !.table = RenderSelectedOnly(T1, total, W.state.selectedIndex)]
     ELSE [W EXCEPT !.table =
             RenderVirtualOptimized(IF selectionChanged THEN T2 ELSE T1, total)]

\* The frame callback the table's subscriber and its scroll listener
\* register: render, then rafId = null.
TableRender(W) ==
  [RenderTable(GetFilteredRequests(W)) EXCEPT !.table.rafId = FALSE]

\* The table's subscriber: it registers the frame callback unless one waits.
TableNotified(W) ==
  IF W.table.rafId THEN W
  ELSE [W EXCEPT !.table.rafId = TRUE, !.rafQueue = Append(@, "table")]

\* ------------------------------------------------------------- NetworkCapture
\* The payload of Network.responseReceived (status, statusText, headers) and
\* of loadingFinished / loadingFailed, as the capture source sends them.
ResponseParams == [status |-> 404, statusText |-> "Not Found", headers |-> "h404"]
FinishedParams == [encodedDataLength |-> 7, elapsed |-> 1]
FailedParams == [errorText |-> "net::ERR_FAILED", elapsed |-> 1]

\* The NetworkRequest record handleRequestWillBeSent builds.
NewRequest(params) ==
  [id |-> params.requestId, url |-> params.url,
   type |-> mapResourceType(params.type),
   status |-> 0, statusText |-> "Pending", duration |-> 0, size |-> 0,
   responseHeaders |-> "none", responseBody |-> Undefined]

\* state.requests.find(r => r.id === requestId): the position of the first
\* request with the id, 0 when there is none.
FindRequest(W, requestId) ==
  LET hits == {i \in DOMAIN W.state.requests :
                 W.objs[W.state.requests[i]].id = requestId}
  IN IF hits = {} THEN 0 ELSE CHOOSE i \in hits : \A j \in hits : i <= j

\* clearCaches
ClearCaches(W) ==
  [W EXCEPT !.capture.pendingRequests = {},
            !.capture.responseBodyCache = {},
            !.capture.fetchingBodies = {}]

\* handleRequestWillBeSent after the navigation check: the request record is
\* built, added to the store and kept in pendingRequests.
TrackRequest(W1, params) ==
  [AddRequest([W1 EXCEPT !.objs = Append(@, NewRequest(params))], Len(W1.objs) + 1)
     EXCEPT !.capture.pendingRequests = @ \cup {params.requestId}]

\* handleRequestWillBeSent, were every Document request taken for a navigation
\* of the main frame.
HandleRequestWillBeSentAnyFrame(W, params) ==
  LET mainNav == params.type = "Document"
  IN TrackRequest(
       IF mainNav
         THEN ClearRequests(ClearCaches(
                [W EXCEPT !.capture.mainFrameId = params.frameId]))
         ELSE W,
       params)

\* handleRequestWillBeSent
HandleRequestWillBeSent(W, params) ==
  LET mainNav == /\ params.type = "Document"
                 /\ (W.capture.mainFrameId = Null \/ params.frameId = W.capture.mainFrameId)
  IN TrackRequest(
       IF mainNav
         THEN ClearRequests(ClearCaches(
                [W EXCEPT !.capture.mainFrameId = params.frameId]))
         ELSE W,
       params)

\* handleResponseReceived, were an id that matches no request taken for the
\* newest request.
HandleResponseReceivedOrNewest(W, requestId, response) ==
  LET found == FindRequest(W, requestId)
      i == IF found = 0 THEN Len(W.state.requests) ELSE found
  IN IF i = 0 THEN W
     ELSE [W EXCEPT !.objs[W.state.requests[i]] =
             [@ EXCEPT !.status = response.status,
                       !.statusText = response.statusText,
                       !.responseHeaders = response.headers]]

\* handleResponseReceived
HandleResponseReceived(W, requestId, response) ==
  LET i == FindRequest(W, requestId)
  IN IF i = 0 THEN W
     ELSE [W EXCEPT !.objs[W.state.requests[i]] =
             [@ EXCEPT !.status = response.status,
                       !.statusText = response.statusText,
                       !.responseHeaders = response.headers]]

\* handleLoadingFinished, were every event to call setState itself.
HandleLoadingFinishedUnbatched(W, requestId, params) ==
  LET i == FindRequest(W, requestId)
  IN IF i = 0 THEN W
     ELSE [SetState(
             [W EXCEPT !.objs[W.state.requests[i]] =
                [@ EXCEPT !.size = params.encodedDataLength,
                          !.duration = params.elapsed]],
             [requests |-> W.state.requests])
           EXCEPT !.capture.pendingRequests = @ \ {requestId}]

\* handleLoadingFinished: the callback it registers closes over the state
\* snapshot taken by this call, so over the array the store holds now.
HandleLoadingFinished(W, requestId, params) ==
  LET i == FindRequest(W, requestId)
  IN IF i = 0 THEN W
     ELSE
       LET W1 == [W EXCEPT
                    !.objs[W.state.requests[i]] =
                       [@ EXCEPT !.size = params.encodedDataLength,
                                 !.duration = params.elapsed],
                    !.capture.pendingUIUpdates = @ \cup {requestId}]
           W2 == IF ~W1.capture.batchScheduled
                   THEN [W1 EXCEPT !.capture.batchScheduled = TRUE,
                                   !.capture.batchRequests = LiveRef,
                                   !.rafQueue = Append(@, "batch")]
                   ELSE W1
       IN [W2 EXCEPT !.capture.pendingRequests = @ \ {requestId}]

\* The callback handleLoadingFinished registers with requestAnimationFrame.
FinishedBatch(W) ==
  LET W1 == SetState(W, [requests |-> Deref(W, W.capture.batchRequests)])
  IN [W1 EXCEPT !.capture.pendingUIUpdates = {},
                !.capture.batchScheduled = FALSE,
                !.capture.batchRequests = NoRef]

\* handleLoadingFailed
HandleLoadingFailed(W, requestId, params) ==
  LET i == FindRequest(W, requestId)
      W1 == IF i = 0 THEN W
            ELSE SetState(
                   [W EXCEPT !.objs[W.state.requests[i]] =
                      [@ EXCEPT !.statusText = params.errorText,
                                !.duration = params.elapsed]],
                   [requests |-> W.state.requests])
  IN [W1 EXCEPT !.capture.pendingRequests = @ \ {requestId}]

\* clearMessage, showMessage, hasMessage: the message shown in the table and
\* whether its auto-clear timer is armed (success 3000 ms, info 2000 ms, an
\* error message has none).
NoMessage == [type |-> "none", timer |-> FALSE]

ClearMessage(W) == [W EXCEPT !.capture.message = NoMessage]

ShowMessage(W, type) ==
  [W EXCEPT !.capture.message =
     [type |-> type, timer |-> type \in {"success", "info"}]]

HasMessage(W) == W.capture.message.type # "none"

\* The head of handleRequestWillBeSent: a message that is no error message is
\* cleared when a request arrives.
ClearArrivalMessage(W) ==
  IF W.capture.message.type \in {"info", "success"} THEN ClearMessage(W) ELSE W

\* The timer of a message fires: the message is removed.
MessageExpired(W) == [W EXCEPT !.capture.message = NoMessage]

\* setTimeout(callback, delay) of the attachment code.
SetTimeout(W, kind, delay) ==
  [W EXCEPT !.conn.timers = Append(@, [kind |-> kind, delay |-> delay])]

\* attachDebugger, were the isAttaching guard missing.
AttachDebuggerUnguarded(W) ==
  [W EXCEPT !.capture.isAttaching = TRUE,
            !.conn.attempts = Append(@, [stage |-> "attach",
                                         wasAlreadyAttached |-> FALSE])]

\* attachDebugger up to its first await: nothing while an attempt is in
\* progress, otherwise chrome.debugger.attach is sent.
AttachDebugger(W) ==
  IF W.capture.isAttaching THEN W
  ELSE [W EXCEPT !.capture.isAttaching = TRUE,
                 !.conn.attempts = Append(@, [stage |-> "attach",
                                              wasAlreadyAttached |-> FALSE])]

\* The delay of a retry, were it to grow by 1000 ms a retry.
RetryDelayFlat(retryCount) == Min(1000 * retryCount, 5000)

\* Math.min(1000 * Math.pow(2, retryCount - 1), 5000)
RetryDelay(retryCount) == Min(1000 * 2^(retryCount - 1), 5000)

\* attachDebugger's catch, for attempt k.
AttachFailed(W, k) ==
  LET W1 == [W EXCEPT !.capture.isAttaching = FALSE,
                      !.conn.attempts = Splice(@, k - 1, 1)]
  IN IF W.capture.retryCount < MAX_RETRIES
       THEN SetTimeout(
              ShowMessage([W1 EXCEPT !.capture.retryCount = @ + 1], "info"),
              "retry", RetryDelay(W.capture.retryCount + 1))
       ELSE ShowMessage(W1, "error")

\* attachDebugger between the attach and the Network.enable command:
\* clearCaches, mainFrameId = null, Network.enable is sent.
EnableNetwork(W, k, wasAlreadyAttached) ==
  [ClearCaches(W) EXCEPT
     !.capture.mainFrameId = Null,
     !.conn.attempts[k] = [stage |-> "enable",
                           wasAlreadyAttached |-> wasAlreadyAttached]]

\* attachDebugger after chrome.debugger.attach has answered: an "already
\* attached" error (ours, or another debugger's) is passed over, any other
\* error is thrown to the catch.
AttachReturned(W, k, outcome) ==
  CASE outcome = "ok" -> EnableNetwork(W, k, FALSE)
    [] outcome \in {"attached", "conflict"} -> EnableNetwork(W, k, TRUE)
    [] OTHER -> AttachFailed(W, k)

\* attachDebugger after Network.enable has answered: on success it waits a
\* tick (setTimeout 0); every error but "already enabled" is thrown.
EnableReturned(W, k, outcome) ==
  IF outcome \in {"ok", "enabled"}
    THEN SetTimeout([W EXCEPT !.conn.attempts[k].stage = "tick"], "tick", 0)
    ELSE AttachFailed(W, k)

\* attachDebugger after the tick: the attempt has succeeded.
AttachSucceeded(W, k) ==
  LET W1 == [W EXCEPT !.capture.retryCount = 0,
                      !.capture.isAttaching = FALSE,
                      !.conn.attempts = Splice(@, k - 1, 1)]
      W2 == IF W.capture.message.type = "info" THEN ClearMessage(W1) ELSE W1
  IN IF Len(W.state.requests) = 0 THEN ShowMessage(W2, "success") ELSE W2

\* The message of handleDebuggerDetach, shown unless a message is shown.
ReconnectMessage(W) ==
  IF HasMessage(W) THEN W ELSE ShowMessage(W, "info")

\* handleDebuggerDetach, were the retry counter left as it is.
HandleDebuggerDetachKeepsRetries(W) ==
  SetTimeout(
    ReconnectMessage(
      ClearRequests([ClearCaches(W) EXCEPT !.capture.mainFrameId = Null])),
    "reattach", 250)

\* handleDebuggerDetach, for the inspected tab.
HandleDebuggerDetach(W) ==
  SetTimeout(
    ReconnectMessage(
      [ClearRequests([ClearCaches(W) EXCEPT !.capture.mainFrameId = Null])
         EXCEPT !.capture.retryCount = 0]),
    "reattach", 250)

\* ensureAttached up to its await: nothing while an attempt is in progress,
\* otherwise Network.enable is sent as a probe.
EnsureAttached(W) ==
  IF W.capture.isAttaching THEN W ELSE [W EXCEPT !.conn.ensuring = @ + 1]

\* ensureAttached after the probe has answered: attached and enabled, or
\* another debugger holds the target (it gives up), or attachDebugger.
EnsureReturned(W, outcome) ==
  CASE outcome \in {"ok", "conflict"} -> [W EXCEPT !.conn.ensuring = @ - 1]
    [] OTHER -> AttachDebugger([W EXCEPT !.conn.ensuring = @ - 1])

\* ------------------------------------------------------------- FilterManager
\* The checkboxes of the filter bar (filterOptions).
FilterValues == {"all", DOC, JS}

\* handleCheckboxChange, on a click: a type's checkbox shows whether the type
\* is in the set, so the click adds an absent type and deletes a present one;
\* "all" clears the set.  The Set object is changed in place, at once, and
\* setState is handed the same object.
HandleCheckboxChange(W, value) ==
  LET types == W.state.filters
      changed == IF value = "all" THEN {}
                 ELSE IF value \in types THEN types \ {value}
                 ELSE types \cup {value}
  IN SetState([W EXCEPT !.state.filters = changed], [filters |-> "state.filters"])

\* ------------------------------------------------------------- KeyboardHandler
\* The keys the user presses.  "P" is Shift+P.
Keys == {"j", "g", "G", "/", "f", "d", "r", "Enter", "c", "q", "Escape", "P", "z"}

\* Shift+H and Shift+L, which with Shift+P choose the preview tab.
TabKeys == {"H", "L"}

\* The keys whose handling in a mode is modelled: left out are the keys a mode
\* hands to a panel component (list, tree and scroll navigation, the filter
\* bar's own keys).
KeysIn(mode) ==
  CASE mode = "filter" -> Keys \ {"Enter"}
    [] mode = "inspect" -> (Keys \cup TabKeys) \ {"j", "g", "G", "/"}
    [] OTHER -> Keys \cup TabKeys

\* moveSelection
MoveSelection(W, delta, maxLength) ==
  SetState(W, [selectedIndex |->
                 Max(0, Min(maxLength - 1, W.state.selectedIndex + delta))])

\* handleGSequence
HandleGSequence(W) ==
  LET seq == W.kbd.keySequence \o "g"
  IN IF seq = "gg"
       THEN [SetState(W, [selectedIndex |-> 0]) EXCEPT
               !.kbd = [keySequence |-> "", timer |-> "none"]]
       ELSE [W EXCEPT !.kbd = [keySequence |-> seq, timer |-> "clear"]]

\* handleDSequence
HandleDSequence(W) ==
  LET seq == W.kbd.keySequence \o "d"
  IN IF seq = "dd"
       THEN [DeleteRequest(W, W.state.selectedIndex) EXCEPT
               !.kbd = [keySequence |-> "", timer |-> "none"]]
     ELSE IF seq = "dr"
       THEN [ClearRequests(W) EXCEPT
               !.kbd = [keySequence |-> "", timer |-> "none"]]
     ELSE [W EXCEPT !.kbd = [keySequence |-> seq, timer |-> "clear"]]

\* focusMap of handleNormalMode's Enter
FocusOfTab(tab) == tab

\* handleNormalMode after its getFilteredRequests call.
NormalModeKey(W, key) ==
  LET requests == Deref(W, W.cache.requests)
  IN CASE key = "j" -> MoveSelection(W, 1, Len(requests))
       [] key = "g" -> HandleGSequence(W)
       [] key = "G" -> SetState(W, [selectedIndex |-> Max(0, Len(requests) - 1)])
       [] key = "/" -> SetState(W, [mode |-> "search", searchQuery |-> ""])
       [] key = "f" -> SetState(W, [mode |-> "filter"])
       [] key = "d" -> HandleDSequence(W)
       [] key = "Enter" ->
            SetState(W, [mode |-> "inspect",
                         inspectFocus |-> FocusOfTab(W.state.previewTab)])
       [] key = "c" -> SetState(W, [mode |-> "copy"])
       [] key = "H" -> SetState(W, [previewTab |-> "headers"])
       [] key = "L" -> SetState(W, [previewTab |-> "response"])
       [] key = "P" -> SetState(W, [previewTab |-> "preview"])
       [] OTHER -> W

\* handleNormalMode
HandleNormalMode(W, key) == NormalModeKey(GetFilteredRequests(W), key)

\* handleSearchMode
HandleSearchMode(W, key) ==
  CASE key = "q" -> SetState(W, [mode |-> "normal", searchQuery |-> ""])
    [] key = "Enter" -> SetState(W, [mode |-> "normal"])
    [] OTHER -> W

\* handleFilterMode
HandleFilterMode(W, key) ==
  IF key = "q" THEN SetState(W, [mode |-> "normal"]) ELSE W

\* switchToPanel
SwitchToPanel(W, tab, focus) ==
  SetState(W, [inspectFocus |-> focus, previewTab |-> tab,
               inspectScrollPosition |-> 0])

\* JsonViewer.getCurrentNode: whether there is a node at jsonSelectedIndex.
HasCurrentNode(W) ==
  W.state.jsonSelectedIndex + 1 \in DOMAIN W.state.flattenedJsonNodes

\* JsonViewer.moveSelection
JsonMoveSelection(W, delta) ==
  LET maxIndex == Len(W.state.flattenedJsonNodes) - 1
  IN IF maxIndex < 0 THEN W
     ELSE SetState(W, [jsonSelectedIndex |->
                         Max(0, Min(maxIndex, W.state.jsonSelectedIndex + delta))])

\* JsonViewer.navigateTo('first')
JsonNavigateToFirst(W) ==
  IF Len(W.state.flattenedJsonNodes) - 1 < 0 THEN W
  ELSE SetState(W, [jsonSelectedIndex |-> 0])

\* String.lastIndexOf(ch), counted from 1: 0 when ch does not occur.
LastIndexOf(s, ch) ==
  LET at == {i \in 1..Len(s) : SubSeq(s, i, i) = ch}
  IN IF at = {} THEN 0 ELSE CHOOSE i \in at : \A j \in at : j <= i

Digits == {"0", "1", "2", "3", "4", "5", "6", "7", "8", "9"}

\* path.match(/^(.+)\[\d+\]$/): the position of the '[' of a trailing
\* bracket index that something precedes, 0 when the path has none.
BracketMatch(path) ==
  LET open == LastIndexOf(path, "[")
  IN IF /\ open >= 2
        /\ SubSeq(path, Len(path), Len(path)) = "]"
        /\ open + 1 <= Len(path) - 1
        /\ \A i \in (open + 1)..(Len(path) - 1) : SubSeq(path, i, i) \in Digits
       THEN open ELSE 0

\* Array.findIndex(n => n.path === path), counted from 1: 0 when there is none.
FindIndexByPath(nodes, path) ==
  LET at == {n \in DOMAIN nodes : nodes[n].path = path}
  IN IF at = {} THEN 0 ELSE CHOOSE n \in at : \A m \in at : n <= m

\* JsonViewer.moveToParent: the parent path is the path without its trailing
\* bracket index, or else without its last dot segment.
MoveToParent(W) ==
  LET nodes == W.state.flattenedJsonNodes
      path == nodes[W.state.jsonSelectedIndex + 1].path
      open == BracketMatch(path)
      lastDot == LastIndexOf(path, ".")
      parentPath == IF open # 0 THEN SubSeq(path, 1, open - 1)
                    ELSE SubSeq(path, 1, lastDot - 1)
      parentIndex == FindIndexByPath(nodes, parentPath)
  IN IF ~HasCurrentNode(W) THEN W
     ELSE IF open = 0 /\ lastDot = 0 THEN W
     ELSE IF parentIndex # 0
       THEN SetState(W, [jsonSelectedIndex |-> parentIndex - 1])
     ELSE W

\* JsonViewer.collapseCurrentNode
CollapseCurrentNode(W) ==
  LET node == W.state.flattenedJsonNodes[W.state.jsonSelectedIndex + 1]
  IN IF ~HasCurrentNode(W) THEN W
     ELSE IF IsContainer(node.value)
       THEN JsonRerender(
              [W EXCEPT !.state.jsonExpanded = ExpandedSet(@, node.path, FALSE)])
     ELSE MoveToParent(W)

\* JsonViewer.expandCurrentNode
ExpandCurrentNode(W) ==
  LET node == W.state.flattenedJsonNodes[W.state.jsonSelectedIndex + 1]
  IN IF ~HasCurrentNode(W) THEN W
     ELSE IF ~IsContainer(node.value) THEN W
     ELSE JsonRerender(
            [W EXCEPT !.state.jsonExpanded = ExpandedSet(@, node.path, TRUE)])

\* yankJsonValue, yankJsonAsJson, yankJsonPath: what goes to the clipboard,
\* when there is a current node (its JSON text and its path are not empty).
Yank(W, what) ==
  IF HasCurrentNode(W) THEN [W EXCEPT !.copied = Append(@, what)] ELSE W

\* handleJsonYankSequence
HandleJsonYankSequence(W, key) ==
  LET seq == W.kbd.keySequence \o key
  IN CASE seq = "yy" ->
            [Yank(W, "json") EXCEPT !.kbd = [keySequence |-> "", timer |-> "none"]]
       [] seq = "yp" ->
            [Yank(W, "path") EXCEPT !.kbd = [keySequence |-> "", timer |-> "none"]]
       [] seq = "y" -> [W EXCEPT !.kbd = [keySequence |-> "y", timer |-> "yank"]]
       [] OTHER -> [W EXCEPT !.kbd = [keySequence |-> "", timer |-> "none"]]

\* The callback of the 300 ms timer handleJsonYankSequence arms.
JsonYankExpired(W) ==
  [(IF W.kbd.keySequence = "y" THEN Yank(W, "value") ELSE W)
     EXCEPT !.kbd = [keySequence |-> "", timer |-> "none"]]

\* handleJsonGSequence
HandleJsonGSequence(W) ==
  LET seq == W.kbd.keySequence \o "g"
  IN IF seq = "gg"
       THEN [JsonNavigateToFirst(W) EXCEPT
               !.kbd = [keySequence |-> "", timer |-> "none"]]
       ELSE [W EXCEPT !.kbd = [keySequence |-> seq, timer |-> "clear"]]

\* The keys of the JSON tree whose handling is modelled: j, y, p and g (left
\* out: k, h, l, G, the panel search).
JsonPanelKeys == {"j", "y", "p", "g"}

\* handleInspectMode with PREVIEW focus on the preview tab.
JsonPanelKey(W, key) ==
  CASE key = "j" -> JsonMoveSelection(W, 1)
    [] key = "y" -> HandleJsonYankSequence(W, "y")
    [] key = "p" -> IF W.kbd.keySequence = "y"
                      THEN HandleJsonYankSequence(W, "p") ELSE W
    [] key = "g" -> HandleJsonGSequence(W)
    [] OTHER -> W

\* The keys h and l of the JSON tree, modelled besides JsonPanelKeys.
JsonTreeKeys == {"h", "l"}

\* handleInspectMode with PREVIEW focus on the preview tab: h and l.
JsonTreeKey(W, key) ==
  IF key = "h" THEN CollapseCurrentNode(W) ELSE ExpandCurrentNode(W)

\* The keys of the headers list that are modelled (left out: k, y, g, G).
HeadersKeys == {"j", "h", "l"}

\* handleInspectMode with HEADERS focus on the headers tab.
HeadersKey(W, key) ==
  CASE key = "j" -> HeadersMoveSelection(W, 1)
    [] key = "h" -> CollapseCurrentSection(W)
    [] key = "l" -> ExpandCurrentSection(W)

\* handleInspectMode
HandleInspectMode(W, key) ==
  CASE key = "q" ->
         SetState(W, [mode |-> "normal", inspectFocus |-> "headers",
                      inspectSearchQuery |-> "", inspectSearchMatches |-> <<>>,
                      inspectSearchIndex |-> 0, headersSelectedIndex |-> 0,
                      isInspectExpanded |-> FALSE])
    [] key = "z" -> SetState(W, [isInspectExpanded |-> ~W.state.isInspectExpanded])
    [] key = "H" -> SwitchToPanel(W, "headers", "headers")
    [] key = "L" -> SwitchToPanel(W, "response", "response")
    [] key = "P" -> SwitchToPanel(W, "preview", "preview")
    [] /\ W.state.inspectFocus = "headers" /\ W.state.previewTab = "headers"
       /\ key \in HeadersKeys -> HeadersKey(W, key)
    [] /\ W.state.inspectFocus = "preview" /\ W.state.previewTab = "preview"
       /\ key \in JsonPanelKeys -> JsonPanelKey(W, key)
    [] /\ W.state.inspectFocus = "preview" /\ W.state.previewTab = "preview"
       /\ key \in JsonTreeKeys -> JsonTreeKey(W, key)
    [] OTHER -> W

\* CopyMenu.executeActionByIndex after its getFilteredRequests call.
ExecuteAction(W) ==
  IF W.state.selectedIndex + 1 > Len(Deref(W, W.cache.requests)) THEN W
  ELSE SetState(W, [mode |-> "normal"])

\* CopyMenu.executeSelectedAction
ExecuteSelectedAction(W) == ExecuteAction(GetFilteredRequests(W))

\* handleCopyMode
HandleCopyMode(W, key) ==
  CASE key \in {"q", "Escape"} -> SetState(W, [mode |-> "normal"])
    [] key = "Enter" -> ExecuteSelectedAction(W)
    [] OTHER -> W

\* handleKeyDown: the handler of the mode the store holds now.
HandleKeyDown(W, key) ==
  CASE W.state.mode = "normal" -> HandleNormalMode(W, key)
    [] W.state.mode = "search" -> HandleSearchMode(W, key)
    [] W.state.mode = "filter" -> HandleFilterMode(W, key)
    [] W.state.mode = "inspect" -> HandleInspectMode(W, key)
    [] W.state.mode = "copy" -> HandleCopyMode(W, key)

\* The callback of the timer handleGSequence and handleDSequence arm.
SequenceExpired(W) ==
  [W EXCEPT !.kbd = [keySequence |-> "", timer |-> "none"]]

\* Section 4.3: the mode a key leads to from a mode.
TransitionTable(mode, key) ==
  CASE mode = "normal" /\ key = "/" -> "search"
    [] mode = "normal" /\ key = "f" -> "filter"
    [] mode = "normal" /\ key = "Enter" -> "inspect"
    [] mode = "normal" /\ key = "c" -> "copy"
    [] mode # "normal" /\ key = "q" -> "normal"
    [] mode = "copy" /\ key = "Escape" -> "normal"
    [] OTHER -> mode

\* The keys whose effect on the mode section 4.3 does not list although a
\* handler changes the mode on them (Enter leaves SEARCH and COPY).
OffTable(mode, key) == key = "Enter" /\ mode \in {"search", "copy"}

\* ------------------------------------------------------------- the machine
\* The state after construction: no request, NORMAL mode, the filtered view
\* computed once by the components' initial renders.
InitState ==
  [mode |-> "normal", requests |-> <<>>, selectedIndex |-> 0,
   searchQuery |-> "", filters |-> {}, previewTab |-> "headers",
   inspectFocus |-> "headers", inspectScrollPosition |-> 0,
   inspectSearchQuery |-> "", inspectSearchMatches |-> <<>>,
   inspectSearchIndex |-> 0, headersSelectedIndex |-> 0,
   isInspectExpanded |-> FALSE, jsonSelectedIndex |-> 0,
   jsonExpanded |-> {}, flattenedJsonNodes |-> <<>>]

\* The store and the components after construction.
InitStore(events) ==
  /\ state = InitState
  /\ objs = <<>>
  /\ pendingUpdates = <<>>
  /\ cache = [hasRequests |-> TRUE, requests |-> LiveRef, lastRequestsLength |-> 0,
              lastSearchQuery |-> "", lastTypesSize |-> 0]
  /\ fuse = [built |-> TRUE, records |-> <<>>, docs |-> LiveRef, lastLength |-> 0]
  /\ rafQueue = <<>>
  /\ frameLeft = 0
  /\ preview = [lastRequestId |-> "", lastPreviewTab |-> "",
                response |-> PanelEmpty, json |-> PanelEmpty]
  /\ kbd = [keySequence |-> "", timer |-> "none"]
  /\ viewer = [currentData |-> NoData, nodes |-> <<>>]
  /\ headersList = InitHeadersList
  /\ table = InitNetworkTable
  /\ debounced = Null
  /\ budget = events
  /\ calls = <<>>
  /\ hist = [op |-> "init", notified |-> 0, dropped |-> 0, merged |-> 0,
             evicted |-> 0, tableMode |-> "normal", onTable |-> TRUE,
             started |-> FALSE, afterG |-> FALSE, copied |-> <<>>,
               batched |-> 0, cleared |-> {}]

\* The fields of NetworkCapture after construction.
InitCapture ==
  [mainFrameId |-> Null, pendingRequests |-> {}, pendingUIUpdates |-> {},
   batchScheduled |-> FALSE, batchRequests |-> NoRef,
   responseBodyCache |-> {}, fetchingBodies |-> {},
   isAttaching |-> TRUE, retryCount |-> 0, message |-> NoMessage]

\* The constructor's attachDebugger call has sent chrome.debugger.attach;
\* the target is free, or another debugger holds it.
InitConn(target) ==
  [target |-> target, enabled |-> FALSE,
   attempts |-> <<[stage |-> "attach", wasAlreadyAttached |-> FALSE]>>,
   ensuring |-> 0, timers |-> <<>>]

\* The capture once the constructor's attempt has succeeded and its success
\* message is gone: attached, the Network domain enabled, events arriving.
InitWith(events) ==
  /\ InitStore(events)
  /\ capture = [InitCapture EXCEPT !.isAttaching = FALSE]
  /\ conn = [target |-> "ours", enabled |-> TRUE, attempts |-> <<>>,
             ensuring |-> 0, timers |-> <<>>]

Init ==
  InitWith([objs |-> MaxObjs, updates |-> MaxUpdates, keys |-> MaxKeys,
            detaches |-> 0, shown |-> 0, clicks |-> 0])

InitKeys ==
  InitWith([objs |-> KeysMaxObjs, updates |-> 0, keys |-> KeysMaxKeys,
            detaches |-> 0, shown |-> 0, clicks |-> 0])

InitView ==
  InitWith([objs |-> ViewMaxObjs, updates |-> 0, keys |-> ViewMaxKeys,
            detaches |-> 0, shown |-> 0, clicks |-> 0])

InitFetch ==
  InitWith([objs |-> FetchMaxObjs, updates |-> 0, keys |-> FetchMaxKeys,
            detaches |-> 0, shown |-> 0, clicks |-> 0])

InitAttach ==
  /\ InitStore([objs |-> AttachMaxObjs, updates |-> 0, keys |-> 0,
                detaches |-> MaxDetaches, shown |-> MaxShown, clicks |-> 0])
  /\ capture = InitCapture
  /\ \E target \in {"free", "other"} : conn = InitConn(target)

\* The step's result becomes the next state.  Events of the environment are
\* delivered between frames only (a frame's callbacks run back to back).
Commit(W) ==
  /\ Len(W.pendingUpdates) <= MaxPending
  /\ state' = W.state
  /\ objs' = W.objs
  /\ pendingUpdates' = W.pendingUpdates
  /\ cache' = W.cache
  /\ fuse' = W.fuse
  /\ rafQueue' = W.rafQueue
  /\ capture' = W.capture
  /\ Len(W.calls) <= MaxCalls
  /\ calls' = W.calls
  /\ conn' = W.conn
  /\ preview' = W.preview
  /\ kbd' = W.kbd
  /\ viewer' = W.viewer
  /\ headersList' = W.headersList
  /\ table' = W.table

Note(op, W) ==
  hist' = [hist EXCEPT !.op = op, !.notified = W.notified, !.dropped = W.dropped,
                       !.merged = 0, !.evicted = W.evicted,
                       !.started = Len(W.conn.attempts) > Len(conn.attempts),
                       !.copied = W.copied,
                       !.cleared = @ \cup W.cleared,
                       !.batched = IF op = "batch"
                                     THEN Cardinality(capture.pendingUIUpdates)
                                     ELSE 0]

\* A handler has run: W is the program state it leaves.
Step(op, W) == Commit(W) /\ Note(op, W)

\* The same for a key: the section 4.3 table follows the keys pressed.
KeyStep(key, W) ==
  /\ Commit(W)
  /\ hist' = [hist EXCEPT
                !.op = "key", !.notified = W.notified, !.dropped = W.dropped,
                !.merged = 0, !.evicted = W.evicted,
                !.tableMode = TransitionTable(@, key),
                !.onTable = @ /\ ~OffTable(hist.tableMode, key),
                !.afterG = (key = "g" /\ state.mode = "normal"),
                !.copied = W.copied, !.batched = 0,
                !.cleared = @ \cup W.cleared]

\* The same for the store's frame callback.
FlushStep(W) ==
  /\ Commit(W)
  /\ hist' = [hist EXCEPT !.op = "flush", !.notified = W.notified,
                           !.dropped = W.dropped, !.evicted = 0,
                           !.merged = Len(pendingUpdates), !.copied = <<>>,
                           !.batched = 0]

\* A continuation waits on a promise that is resolved already: it runs
\* before any other event or callback.
MicrotaskPending == \E k \in DOMAIN calls : calls[k].kind = "cached"

Idle == frameLeft = 0 /\ ~MicrotaskPending

\* Network.requestWillBeSent
RequestWillBeSent(params) ==
  /\ Idle
  /\ budget.objs > 0
  /\ conn.target = "ours" /\ conn.enabled
  /\ Step("initiated", HandleRequestWillBeSent(ClearArrivalMessage(World), params))
  /\ budget' = [budget EXCEPT !.objs = @ - 1]
  /\ UNCHANGED <<frameLeft, debounced>>

\* Network.responseReceived
ResponseReceived(requestId) ==
  /\ Idle
  /\ budget.updates > 0
  /\ Step("response", HandleResponseReceived(World, requestId, ResponseParams))
  /\ budget' = [budget EXCEPT !.updates = @ - 1]
  /\ UNCHANGED <<frameLeft, debounced>>

\* Network.loadingFinished
LoadingFinished(requestId) ==
  /\ Idle
  /\ budget.updates > 0
  /\ Step("finished", HandleLoadingFinished(World, requestId, FinishedParams))
  /\ budget' = [budget EXCEPT !.updates = @ - 1]
  /\ UNCHANGED <<frameLeft, debounced>>

\* Network.loadingFailed
LoadingFailed(requestId) ==
  /\ Idle
  /\ budget.updates > 0
  /\ Step("failed", HandleLoadingFailed(World, requestId, FailedParams))
  /\ budget' = [budget EXCEPT !.updates = @ - 1]
  /\ UNCHANGED <<frameLeft, debounced>>

\* A key press.
KeyDown(key) ==
  /\ Idle
  /\ budget.keys > 0
  /\ key \in KeysIn(state.mode)
  /\ KeyStep(key, HandleKeyDown(World, key))
  /\ budget' = [budget EXCEPT !.keys = @ - 1]
  /\ UNCHANGED <<frameLeft, debounced>>

\* The sequence timer fires (1000 ms after the key that armed it).
SequenceTimeout ==
  /\ Idle
  /\ kbd.timer = "clear"
  /\ Step("timeout", SequenceExpired(World))
  /\ UNCHANGED <<frameLeft, debounced, budget>>

\* The user edits the search input (shown in SEARCH mode): the debounced
\* call is (re)armed with the input's text.
SearchInput(query) ==
  /\ Idle
  /\ state.mode = "search"
  /\ budget.keys > 0
  /\ debounced # query
  /\ debounced' = query
  /\ hist' = [hist EXCEPT !.op = "input", !.notified = 0, !.dropped = 0,
                           !.merged = 0, !.evicted = 0, !.copied = <<>>,
                           !.batched = 0]
  /\ budget' = [budget EXCEPT !.keys = @ - 1]
  /\ UNCHANGED <<state, objs, pendingUpdates, cache, fuse, rafQueue, frameLeft,
                 capture, calls, conn, preview, kbd, viewer, headersList,
                 table>>

\* The debounced call runs, 200 ms after the last edit.
DebouncedSearch ==
  /\ Idle
  /\ debounced # Null
  /\ Step("search", SetState(World, [searchQuery |-> debounced]))
  /\ debounced' = Null
  /\ UNCHANGED <<frameLeft, budget>>

\* A click on a checkbox of the filter bar (shown in FILTER mode).
CheckboxChange(value) ==
  /\ Idle
  /\ state.mode = "filter"
  /\ budget.keys > 0
  /\ Step("checkbox", HandleCheckboxChange(World, value))
  /\ budget' = [budget EXCEPT !.keys = @ - 1]
  /\ UNCHANGED <<frameLeft, debounced>>

\* An animation frame runs the callbacks registered before it, in the order
\* of registration; a callback registered meanwhile waits for the next frame.
FrameStep(callback) ==
  /\ ~MicrotaskPending
  /\ rafQueue # <<>>
  /\ Head(rafQueue) = callback
  /\ frameLeft' = IF frameLeft = 0 THEN Len(rafQueue) - 1 ELSE frameLeft - 1

\* The store's frame callback.
RafFlush ==
  /\ FrameStep("flush")
  /\ FlushStep(FlushPending([World EXCEPT !.rafQueue = Tail(@)]))
  /\ UNCHANGED <<debounced, budget>>

\* The capture's frame callback.
RafBatch ==
  /\ FrameStep("batch")
  /\ Step("batch", FinishedBatch([World EXCEPT !.rafQueue = Tail(@)]))
  /\ UNCHANGED <<debounced, budget>>

\* The capture side: every capture event, with the keys that delete and move
\* the selection.
CaptureKeys == {"d", "G"}

\* Events name a request the page has sent, or one it never sent.
SentIds == {objs[i].id : i \in DOMAIN objs} \cup {"zz"}

Next ==
  \/ \E params \in RequestParams : RequestWillBeSent(params)
  \/ \E requestId \in SentIds : ResponseReceived(requestId)
  \/ \E requestId \in SentIds : LoadingFinished(requestId)
  \/ \E requestId \in SentIds : LoadingFailed(requestId)
  \/ \E key \in CaptureKeys : KeyDown(key)
  \/ SequenceTimeout
  \/ RafFlush
  \/ RafBatch

Spec == Init /\ [][Next]_vars

\* The keyboard side: every key, the search input and the filter bar, over
\* requests that arrive meanwhile.
NextKeys ==
  \/ \E params \in RequestParams : RequestWillBeSent(params)
  \/ \E key \in Keys : KeyDown(key)
  \/ SequenceTimeout
  \/ \E query \in Queries : SearchInput(query)
  \/ DebouncedSearch
  \/ \E value \in FilterValues : CheckboxChange(value)
  \/ RafFlush

SpecKeys == InitKeys /\ [][NextKeys]_vars

\* The filtered view: the type filter set through the filter bar, deletions
\* and selection moves, over requests that arrive meanwhile.
ViewKeys == {"f", "q", "d", "G"}

NextView ==
  \/ \E params \in RequestParams : RequestWillBeSent(params)
  \/ \E key \in ViewKeys : KeyDown(key)
  \/ SequenceTimeout
  \/ \E value \in FilterValues : CheckboxChange(value)
  \/ RafFlush

SpecView == InitView /\ [][NextView]_vars

\* The lazy body fetch: the tabs chosen in NORMAL mode, over requests that
\* arrive meanwhile (a redirect sends requestWillBeSent again with the id).
FetchKeys == {"L", "P", "j"}

\* What Network.getResponseBody answers: a JSON body, or an error.
BodyOutcomes == {"json", "fail"}

\* Network.getResponseBody answers call k.
GetResponseBodyReturns(k, outcome) ==
  /\ Idle
  /\ k \in DOMAIN calls
  /\ calls[k].kind = "fetch"
  /\ Step(IF outcome = "fail" THEN "bodyFailed" ELSE "body",
          IF outcome = "fail" THEN GetResponseBodyFailed(World, k)
          ELSE GetResponseBodySucceeded(World, k, outcome))
  /\ UNCHANGED <<frameLeft, debounced, budget>>

\* The 50 ms interval of a waiting call fires and finds the body cached (it
\* changes nothing while it finds none).
PollInterval(k) ==
  /\ Idle
  /\ k \in DOMAIN calls
  /\ calls[k].kind = "poll"
  /\ CacheHas(World, calls[k].id)
  /\ Step("poll", PollCache(World, k))
  /\ UNCHANGED <<frameLeft, debounced, budget>>

\* The continuation of a call that found the body cached runs.
CachedBodyReturns(k) ==
  /\ k \in DOMAIN calls
  /\ calls[k].kind = "cached"
  /\ \A j \in 1..(k - 1) : calls[j].kind # "cached"
  /\ Step("body", CachedReturned(World, k))
  /\ UNCHANGED <<frameLeft, debounced, budget>>

NextFetch ==
  \/ \E params \in RequestParams : RequestWillBeSent(params)
  \/ \E key \in FetchKeys : KeyDown(key)
  \/ \E k \in 1..MaxCalls, outcome \in BodyOutcomes : GetResponseBodyReturns(k, outcome)
  \/ \E k \in 1..MaxCalls : PollInterval(k)
  \/ \E k \in 1..MaxCalls : CachedBodyReturns(k)
  \/ RafFlush

SpecFetch == InitFetch /\ [][NextFetch]_vars

\* Frames keep coming (a registered callback is run: the queue is empty again
\* and again), a command sent is answered, an interval keeps firing.
SpecFetchLive ==
  /\ SpecFetch
  /\ []<>(rafQueue = <<>>)
  /\ WF_vars(\E k \in 1..MaxCalls, outcome \in BodyOutcomes :
                GetResponseBodyReturns(k, outcome))
  /\ WF_vars(\E k \in 1..MaxCalls : PollInterval(k))
  /\ WF_vars(\E k \in 1..MaxCalls : CachedBodyReturns(k))

\* The attachment.  What chrome.debugger.attach answers, by who holds the
\* target: success or an error of the page ("Cannot access ...") on a free
\* target, "already attached" on ours, the conflict on another debugger's.
AttachOutcomes(target) ==
  CASE target = "free" -> {"ok", "error"}
    [] target = "ours" -> {"attached"}
    [] OTHER -> {"conflict"}

\* What Network.enable answers.
EnableOutcomes(target) ==
  CASE target = "ours" -> {"ok", "error"}
    [] target = "free" -> {"notAttached"}
    [] OTHER -> {"conflict"}

\* chrome.debugger.attach answers attempt k.
AttachCommandReturns(k, outcome) ==
  /\ Idle
  /\ k \in DOMAIN conn.attempts
  /\ conn.attempts[k].stage = "attach"
  /\ outcome \in AttachOutcomes(conn.target)
  /\ Step(IF outcome = "error" THEN "attachFailed" ELSE "attachAnswered",
          AttachReturned(
            IF outcome = "ok"
              THEN [World EXCEPT !.conn.target = "ours", !.conn.enabled = FALSE]
              ELSE World,
            k, outcome))
  /\ UNCHANGED <<frameLeft, debounced, budget>>

\* Network.enable answers attempt k.
EnableCommandReturns(k, outcome) ==
  /\ Idle
  /\ k \in DOMAIN conn.attempts
  /\ conn.attempts[k].stage = "enable"
  /\ outcome \in EnableOutcomes(conn.target)
  /\ Step(IF outcome = "ok" THEN "enableAnswered" ELSE "attachFailed",
          EnableReturned(
            IF outcome = "ok" THEN [World EXCEPT !.conn.enabled = TRUE] ELSE World,
            k, outcome))
  /\ UNCHANGED <<frameLeft, debounced, budget>>

\* A timer fires no sooner than the timers set before it with a delay that
\* is not longer.
TimerDue(i, kind) ==
  /\ i \in DOMAIN conn.timers
  /\ conn.timers[i].kind = kind
  /\ \A j \in 1..(i - 1) : conn.timers[j].delay > conn.timers[i].delay

TimerGone(i) == [World EXCEPT !.conn.timers = Splice(@, i - 1, 1)]

\* The attempt that waits for its tick.
TickAttempt ==
  CHOOSE k \in DOMAIN conn.attempts :
    /\ conn.attempts[k].stage = "tick"
    /\ \A j \in 1..(k - 1) : conn.attempts[j].stage # "tick"

\* The tick of attachDebugger.
TickTimer(i) ==
  /\ Idle
  /\ TimerDue(i, "tick")
  /\ Step("attachSucceeded", AttachSucceeded(TimerGone(i), TickAttempt))
  /\ UNCHANGED <<frameLeft, debounced, budget>>

\* The timer of a retry.
RetryTimer(i) ==
  /\ Idle
  /\ TimerDue(i, "retry")
  /\ Step("retry", AttachDebugger(TimerGone(i)))
  /\ UNCHANGED <<frameLeft, debounced, budget>>

\* The 250 ms timer of handleDebuggerDetach.
ReattachTimer(i) ==
  /\ Idle
  /\ TimerDue(i, "reattach")
  /\ Step("reattach", AttachDebugger(TimerGone(i)))
  /\ UNCHANGED <<frameLeft, debounced, budget>>

\* The auto-clear timer of the message.
MessageTimeout ==
  /\ Idle
  /\ capture.message.timer
  /\ Step("messageTimeout", MessageExpired(World))
  /\ UNCHANGED <<frameLeft, debounced, budget>>

\* chrome.debugger.onDetach for the inspected tab: the debugger is gone.
DebuggerDetach ==
  /\ Idle
  /\ conn.target = "ours"
  /\ budget.detaches > 0
  /\ Step("detach",
          HandleDebuggerDetach(
            [World EXCEPT !.conn.target = "free", !.conn.enabled = FALSE]))
  /\ budget' = [budget EXCEPT !.detaches = @ - 1]
  /\ UNCHANGED <<frameLeft, debounced>>

\* The panel is shown: ensureAttached.
PanelShown ==
  /\ Idle
  /\ budget.shown > 0
  /\ Step("shown", EnsureAttached(World))
  /\ budget' = [budget EXCEPT !.shown = @ - 1]
  /\ UNCHANGED <<frameLeft, debounced>>

\* The Network.enable probe of ensureAttached answers.
EnsureProbeReturns(outcome) ==
  /\ Idle
  /\ conn.ensuring > 0
  /\ outcome \in EnableOutcomes(conn.target)
  /\ Step("ensured",
          EnsureReturned(
            IF outcome = "ok" THEN [World EXCEPT !.conn.enabled = TRUE] ELSE World,
            outcome))
  /\ UNCHANGED <<frameLeft, debounced, budget>>

\* The timers and attempts the attachment can have at once.
Slots == 1..(MAX_RETRIES + 2)

AllOutcomes == {"ok", "error", "attached", "conflict", "notAttached"}

NextAttach ==
  \/ \E k \in Slots, outcome \in AllOutcomes : AttachCommandReturns(k, outcome)
  \/ \E k \in Slots, outcome \in AllOutcomes : EnableCommandReturns(k, outcome)
  \/ \E i \in Slots : TickTimer(i)
  \/ \E i \in Slots : RetryTimer(i)
  \/ \E i \in Slots : ReattachTimer(i)
  \/ MessageTimeout
  \/ DebuggerDetach
  \/ PanelShown
  \/ \E outcome \in AllOutcomes : EnsureProbeReturns(outcome)
  \/ \E params \in RequestParams : RequestWillBeSent(params)

SpecAttach == InitAttach /\ [][NextAttach]_vars

\* A command sent is answered and a timer set fires.
SpecAttachLive ==
  /\ SpecAttach
  /\ WF_vars(\E k \in Slots, outcome \in AllOutcomes : AttachCommandReturns(k, outcome))
  /\ WF_vars(\E k \in Slots, outcome \in AllOutcomes : EnableCommandReturns(k, outcome))
  /\ WF_vars(\E i \in Slots : TickTimer(i))
  /\ WF_vars(\E i \in Slots : RetryTimer(i))
  /\ WF_vars(\E i \in Slots : ReattachTimer(i))

\* Request a has finished, the preview tab was chosen, the body was fetched
\* and rendered by the JSON viewer, Enter has entered INSPECT mode, and the
\* frames of all that have run.
InitViewer(bodies, maxKeys, maxClicks) ==
  \E body \in bodies : \E data \in {BodyDocument(body)} :
    /\ state = [InitState EXCEPT
                  !.mode = "inspect", !.inspectFocus = "preview",
                  !.previewTab = "preview", !.requests = <<1>>,
                  !.flattenedJsonNodes = FlattenJson({}, data, "", 0)]
    /\ objs = <<[NewRequest([requestId |-> "a", type |-> "Document",
                             frameId |-> "F1", url |-> "x/ab"])
                   EXCEPT !.status = 404, !.statusText = "Not Found",
                          !.responseHeaders = "h404", !.size = 7,
                          !.duration = 1, !.responseBody = body]>>
    /\ pendingUpdates = <<>>
    /\ cache = [hasRequests |-> TRUE, requests |-> LiveRef,
                lastRequestsLength |-> 1, lastSearchQuery |-> "",
                lastTypesSize |-> 0]
    /\ fuse = [built |-> TRUE, records |-> <<1>>, docs |-> LiveRef,
               lastLength |-> 1]
    /\ rafQueue = <<>>
    /\ frameLeft = 0
    /\ capture = [InitCapture EXCEPT !.isAttaching = FALSE,
                                     !.mainFrameId = "F1",
                                     !.responseBodyCache = {<<"a", body>>}]
    /\ calls = <<>>
    /\ conn = [target |-> "ours", enabled |-> TRUE, attempts |-> <<>>,
               ensuring |-> 0, timers |-> <<>>]
    /\ preview = [lastRequestId |-> "a", lastPreviewTab |-> "preview",
                  response |-> PanelEmpty, json |-> PanelBody(1, body)]
    /\ kbd = [keySequence |-> "", timer |-> "none"]
    /\ viewer = [currentData |-> data,
                 nodes |-> FlattenJson({}, data, "", 0)]
    /\ headersList = [InitHeadersList EXCEPT
                        !.headers = HeaderItems({}, "h404"),
                        !.lastRequestId = "a", !.lastSelectedIndex = 0]
    /\ table = TableShowing(InitNetworkTable, 1)
    /\ debounced = Null
    /\ budget = [objs |-> 0, updates |-> 0, keys |-> maxKeys,
                 detaches |-> 0, shown |-> 0, clicks |-> maxClicks]
    /\ hist = [op |-> "init", notified |-> 0, dropped |-> 0, merged |-> 0,
               evicted |-> 0, tableMode |-> "inspect", onTable |-> TRUE,
               started |-> FALSE, afterG |-> FALSE, copied |-> <<>>,
               batched |-> 0, cleared |-> {}]

InitJson == InitViewer({"json", "dotted"}, JsonMaxKeys, JsonMaxClicks)

\* The nodes a container of the viewer can show.
MaxNodes == 8

\* A click on the n-th node of the tree, an object or an array (only these
\* have the listener): toggleNode with the node's path.
NodeClick(n) ==
  /\ Idle
  /\ budget.clicks > 0
  /\ n \in DOMAIN viewer.nodes
  /\ IsContainer(viewer.nodes[n].value)
  /\ Step("toggle", ToggleNode(World, viewer.nodes[n].path))
  /\ budget' = [budget EXCEPT !.clicks = @ - 1]
  /\ UNCHANGED <<frameLeft, debounced>>

\* A key of the JSON tree, in INSPECT mode with PREVIEW focus.
JsonKeyDown(key) ==
  /\ Idle
  /\ budget.keys > 0
  /\ state.mode = "inspect"
  /\ state.inspectFocus = "preview" /\ state.previewTab = "preview"
  /\ KeyStep(key, HandleKeyDown(World, key))
  /\ budget' = [budget EXCEPT !.keys = @ - 1]
  /\ UNCHANGED <<frameLeft, debounced>>

\* The 300 ms timer of a y fires.
YankTimeout ==
  /\ Idle
  /\ kbd.timer = "yank"
  /\ Step("yankTimeout", JsonYankExpired(World))
  /\ UNCHANGED <<frameLeft, debounced, budget>>

NextJson ==
  \/ \E n \in 1..MaxNodes : NodeClick(n)
  \/ \E key \in JsonPanelKeys : JsonKeyDown(key)
  \/ YankTimeout
  \/ SequenceTimeout
  \/ RafFlush

SpecJson == InitJson /\ [][NextJson]_vars

\* The JSON tree under the keyboard: j, h, l and y on every shape of value,
\* with the keys that leave the panel (q, Shift+H).
TreeMaxKeys == 7

TreeKeys == {"j", "h", "l", "y", "q", "H"}

InitTree == InitViewer({"json", "array", "keys"}, TreeMaxKeys, 0)

NextTree ==
  \/ \E key \in TreeKeys : JsonKeyDown(key)
  \/ YankTimeout
  \/ RafFlush

SpecTree == InitTree /\ [][NextTree]_vars

\* The headers list under the keyboard.  Two requests are listed, a with a
\* response and b still pending; the headers tab shows a.  HeadersList.render
\* is a subscriber of the store like PreviewPane.render and runs after it
\* (panel.ts constructs PreviewPane first).  It writes to the store only when
\* headersSelectedIndex lies beyond the list it builds, which takes the keys
\* of this specification, so the other specifications leave it out of
\* their frames.
HeadersMaxKeys == 6

HeadersSpecKeys == {"j", "h", "l", "Enter", "q"}

InitHeaders ==
  /\ state = [InitState EXCEPT !.requests = <<1, 2>>]
  /\ objs = <<[NewRequest([requestId |-> "a", type |-> "Document",
                           frameId |-> "F1", url |-> "x/ab"])
                 EXCEPT !.status = 404, !.statusText = "Not Found",
                        !.responseHeaders = "h404"],
              NewRequest([requestId |-> "b", type |-> "Script",
                          frameId |-> "F1", url |-> "x/ab.js"])>>
  /\ pendingUpdates = <<>>
  /\ cache = [hasRequests |-> TRUE, requests |-> LiveRef,
              lastRequestsLength |-> 2, lastSearchQuery |-> "",
              lastTypesSize |-> 0]
  /\ fuse = [built |-> TRUE, records |-> <<1, 2>>, docs |-> LiveRef,
             lastLength |-> 2]
  /\ rafQueue = <<>>
  /\ frameLeft = 0
  /\ capture = [InitCapture EXCEPT !.isAttaching = FALSE, !.mainFrameId = "F1"]
  /\ calls = <<>>
  /\ conn = [target |-> "ours", enabled |-> TRUE, attempts |-> <<>>,
             ensuring |-> 0, timers |-> <<>>]
  /\ preview = [lastRequestId |-> "a", lastPreviewTab |-> "headers",
                response |-> PanelEmpty, json |-> PanelEmpty]
  /\ kbd = [keySequence |-> "", timer |-> "none"]
  /\ viewer = [currentData |-> NoData, nodes |-> <<>>]
  /\ headersList = [InitHeadersList EXCEPT
                      !.headers = HeaderItems({}, "h404"),
                      !.lastRequestId = "a", !.lastSelectedIndex = 0]
  /\ table = TableShowing(InitNetworkTable, 2)
  /\ debounced = Null
  /\ budget = [objs |-> 0, updates |-> 0, keys |-> HeadersMaxKeys,
               detaches |-> 0, shown |-> 0, clicks |-> 0]
  /\ hist = [op |-> "init", notified |-> 0, dropped |-> 0, merged |-> 0,
             evicted |-> 0, tableMode |-> "normal", onTable |-> TRUE,
             started |-> FALSE, afterG |-> FALSE, copied |-> <<>>,
             batched |-> 0, cleared |-> {}]

\* The store's frame callback, with the headers list among the subscribers.
FlushWithHeaders(W) ==
  EndFlush(W, HeadersListRender(NotifyListeners(ApplyMerged(W))))

RafFlushHeaders ==
  /\ FrameStep("flush")
  /\ FlushStep(FlushWithHeaders([World EXCEPT !.rafQueue = Tail(@)]))
  /\ UNCHANGED <<debounced, budget>>

\* A key while the headers tab is shown.
HeadersKeyDown(key) ==
  /\ Idle
  /\ budget.keys > 0
  /\ state.previewTab = "headers"
  /\ KeyStep(key, HandleKeyDown(World, key))
  /\ budget' = [budget EXCEPT !.keys = @ - 1]
  /\ UNCHANGED <<frameLeft, debounced>>

NextHeaders ==
  \/ \E key \in HeadersSpecKeys : HeadersKeyDown(key)
  \/ RafFlushHeaders

SpecHeaders == InitHeaders /\ [][NextHeaders]_vars

\* The request table under the keyboard and the mouse wheel: TableRows
\* requests are listed and shown from the top, in a container of one of
\* ClientHeights whose rows measure one of RowHeights.  The table's subscriber
\* registers a frame callback of its own on every notification.
TableRows == 32
TableMaxKeys == 3
TableMaxScrolls == 2

ClientHeights == {200, 600}
RowHeights == {20, 28}
ScrollOffsets == {0, 60, 300}
TableKeys == {"j", "G"}

InitTable ==
  \E clientHeight \in ClientHeights, measured \in RowHeights :
    /\ state = [InitState EXCEPT !.requests = [i \in 1..TableRows |-> i]]
    /\ objs = [i \in 1..TableRows |->
                 NewRequest([requestId |-> ToString(i), type |-> "Script",
                             frameId |-> "F1", url |-> "x/ab.js"])]
    /\ pendingUpdates = <<>>
    /\ cache = [hasRequests |-> TRUE, requests |-> LiveRef,
                lastRequestsLength |-> TableRows, lastSearchQuery |-> "",
                lastTypesSize |-> 0]
    /\ fuse = [built |-> TRUE, records |-> [i \in 1..TableRows |-> i],
               docs |-> LiveRef, lastLength |-> TableRows]
    /\ rafQueue = <<>>
    /\ frameLeft = 0
    /\ capture = [InitCapture EXCEPT !.isAttaching = FALSE, !.mainFrameId = "F1"]
    /\ calls = <<>>
    /\ conn = [target |-> "ours", enabled |-> TRUE, attempts |-> <<>>,
               ensuring |-> 0, timers |-> <<>>]
    /\ preview = [lastRequestId |-> "1", lastPreviewTab |-> "headers",
                  response |-> PanelEmpty, json |-> PanelEmpty]
    /\ kbd = [keySequence |-> "", timer |-> "none"]
    /\ viewer = [currentData |-> NoData, nodes |-> <<>>]
    /\ headersList = [InitHeadersList EXCEPT
                        !.headers = HeaderItems({}, "none"),
                        !.lastRequestId = "1", !.lastSelectedIndex = 0]
    /\ table = TableShowing(NewNetworkTable(clientHeight, measured), TableRows)
    /\ debounced = Null
    /\ budget = [objs |-> 0, updates |-> 0, keys |-> TableMaxKeys,
                 detaches |-> 0, shown |-> 0, clicks |-> TableMaxScrolls]
    /\ hist = [op |-> "init", notified |-> 0, dropped |-> 0, merged |-> 0,
               evicted |-> 0, tableMode |-> "normal", onTable |-> TRUE,
               started |-> FALSE, afterG |-> FALSE, copied |-> <<>>,
               batched |-> 0, cleared |-> {}]

\* The store's frame callback, with the table among the subscribers.
FlushWithTable(W) ==
  EndFlush(W, TableNotified(NotifyListeners(ApplyMerged(W))))

RafFlushTable ==
  /\ FrameStep("flush")
  /\ FlushStep(FlushWithTable([World EXCEPT !.rafQueue = Tail(@)]))
  /\ UNCHANGED <<debounced, budget>>

\* The table's frame callback.
RafTable ==
  /\ FrameStep("table")
  /\ Step("table", TableRender([World EXCEPT !.rafQueue = Tail(@)]))
  /\ UNCHANGED <<debounced, budget>>

\* The user scrolls the table's container to an offset: the scroll listener
\* reads it and registers the frame callback unless one waits.
ScrollEvent(offset) ==
  /\ Idle
  /\ budget.clicks > 0
  /\ ClampScroll(table, offset) # table.containerScrollTop
  /\ Step("scroll",
          TableNotified([World EXCEPT
             !.table.containerScrollTop = ClampScroll(table, offset),
             !.table.scrollTop = ClampScroll(table, offset)]))
  /\ budget' = [budget EXCEPT !.clicks = @ - 1]
  /\ UNCHANGED <<frameLeft, debounced>>

NextTable ==
  \/ \E key \in TableKeys : KeyDown(key)
  \/ \E offset \in ScrollOffsets : ScrollEvent(offset)
  \/ RafFlushTable
  \/ RafTable

SpecTable == InitTable /\ [][NextTable]_vars

\* ------------------------------------------------------------- the claims
\* The requests of the collection, oldest first, as records.
Held == [i \in DOMAIN state.requests |-> objs[state.requests[i]]]

\* The search and then the type filter, applied now to the requests, the
\* query and the filter set the store holds.
SearchThenFilter == FilteredRequests(InvalidateFilterCache(World))

\* No setState call is waiting for a frame and no frame callback is due.
Quiet == pendingUpdates = <<>> /\ rafQueue = <<>>

\* C1: a request of the collection is still in it after a responseHeaders,
\* finished or failed event and after a frame callback (the store's flush of
\* the pending setState calls, the capture's finished batch); only dd, the
\* eviction at the cap and a clear take a request out.
C1_StaysUntilDeleted ==
  [][hist'.op \in {"response", "finished", "failed", "flush", "batch"}
       => Range(state.requests) \subseteq Range(state'.requests)]_vars

\* C2: the array getFilteredRequests returns is the search and then the type
\* filter of the requests, the query and the filter set held at the call.
C2_FilteredViewIsCurrent ==
  Quiet => FilteredRequests(World) = SearchThenFilter

\* C3: selectedIndex is 0 while the filtered view is empty and a position of
\* the view otherwise, once the pending updates are applied.
C3_SelectionInsideView ==
  Quiet =>
    LET n == Len(FilteredRequests(World))
    IN IF n = 0 THEN state.selectedIndex = 0
       ELSE state.selectedIndex \in 0..(n - 1)

\* C4: the collection never holds more than MAX_REQUESTS requests and keeps
\* them in the order of their insertion; an initiated event that does not
\* clear the collection leaves the newest MAX_REQUESTS of the old requests
\* followed by the new one, so what it drops at the cap is the front of the
\* array, the oldest inserted.
C4_CapAndFifoEviction ==
  /\ [](/\ Len(state.requests) <= MAX_REQUESTS
        /\ \A i, j \in DOMAIN state.requests :
             i < j => state.requests[i] < state.requests[j])
  /\ [][hist'.op = "initiated" =>
          LET pushed == Append(state.requests, Len(objs'))
              over == Max(0, Len(pushed) - MAX_REQUESTS)
          IN \/ state'.requests = SubSeq(pushed, over + 1, Len(pushed))
             \/ state'.requests = <<Len(objs')>>]_vars

\* An initiated event has evicted the oldest of a full collection.
C4_Evicts ==
  /\ hist.op = "initiated"
  /\ hist.evicted = 1
  /\ Len(state.requests) = MAX_REQUESTS
  /\ state.requests[1] > 1

\* The requests created before a step are the same records after it.
RecordsKept == \A o \in DOMAIN objs : objs'[o] = objs[o]

\* The Document request of a step navigates the main frame.
MainFrameNavigation(params) ==
  /\ params.type = "Document"
  /\ capture.mainFrameId = Null \/ params.frameId = capture.mainFrameId

\* C5, as the spec states it: a Document request of the main frame (or the
\* first Document request) leaves the collection holding exactly the new
\* request; a Document request of another frame leaves every held request in
\* place, unchanged, with the new request appended.
C5_SubframeKeepsAllRequests ==
  [][\A params \in RequestParams :
       RequestWillBeSent(params) /\ params.type = "Document" =>
         IF MainFrameNavigation(params)
           THEN state'.requests = <<Len(objs')>>
           ELSE /\ state'.requests = Append(state.requests, Len(objs'))
                /\ RecordsKept]_vars

\* C5, amended: as above, but a Document request of another frame that finds
\* the collection at the cap has the oldest request evicted; the requests
\* that stay are unchanged and in order, the new one after them.
C5_SubframeKeepsRequestsUpToCap ==
  [][\A params \in RequestParams :
       RequestWillBeSent(params) /\ params.type = "Document" =>
         IF MainFrameNavigation(params)
           THEN state'.requests = <<Len(objs')>>
           ELSE LET pushed == Append(state.requests, Len(objs'))
                    over == Max(0, Len(pushed) - MAX_REQUESTS)
                IN /\ state'.requests = SubSeq(pushed, over + 1, Len(pushed))
                   /\ RecordsKept]_vars

\* A Document request of another frame has been appended to a full collection.
C5_SubframeDocumentAtCap ==
  /\ hist.op = "initiated"
  /\ hist.evicted = 1
  /\ objs[Len(objs)].type = DOC
  /\ Len(state.requests) = MAX_REQUESTS
  /\ state.requests[Len(state.requests)] = Len(objs)

\* C6: a responseHeaders event sets status, statusText and responseHeaders of
\* one held request with the event's id and changes no other record, nor the
\* state (its collection's order and length included), nor the pending
\* updates; with no held request of that id it changes nothing.
C6_ResponseTouchesOneRequest ==
  [][\A requestId \in SentIds :
       ResponseReceived(requestId) =>
         /\ state' = state
         /\ pendingUpdates' = pendingUpdates
         /\ rafQueue' = rafQueue
         /\ Len(objs') = Len(objs)
         /\ LET held == {o \in Range(state.requests) : objs[o].id = requestId}
            IN IF held = {} THEN objs' = objs
               ELSE \E t \in held :
                      /\ objs'[t] = [objs[t] EXCEPT
                                       !.status = ResponseParams.status,
                                       !.statusText = ResponseParams.statusText,
                                       !.responseHeaders = ResponseParams.headers]
                      /\ \A o \in DOMAIN objs : o # t => objs'[o] = objs[o]]_vars

\* A responseHeaders event has reached one of two held requests.
C6_ResponseApplied ==
  /\ hist.op = "response"
  /\ \E i, j \in DOMAIN Held :
       /\ Held[i].status = ResponseParams.status
       /\ Held[i].responseHeaders = ResponseParams.headers
       /\ Held[j].status = 0

\* The pending setState calls are merged field by field, the last written
\* value winning (the filters field carries the Set object the state holds
\* already), all in this one step, with one notification of the subscribers.
MergedLastWriteWins ==
  /\ \A i \in DOMAIN pendingUpdates : \A f \in DOMAIN pendingUpdates[i] \ {"filters"} :
       (\A j \in DOMAIN pendingUpdates : j > i => f \notin DOMAIN pendingUpdates[j])
         => state'[f] = pendingUpdates[i][f]
  /\ pendingUpdates' = <<>>
  /\ hist'.notified = 1

\* The frame's flush applies the calls made before it as C7 says.
C7_FlushMergesPending ==
  [][hist'.op = "flush" => MergedLastWriteWins]_vars

\* C7: every setState call made between two animation frames is merged with
\* the others field by field, the last written value winning, and applied in
\* one step at the next frame with exactly one notification; no call is
\* discarded, the calls the subscribers make while they are notified included.
C7_EveryCallApplied ==
  [][hist'.op = "flush" => MergedLastWriteWins /\ hist'.dropped = 0]_vars

\* C8: once the store has applied its pending updates, the mode is the one
\* the transition table of section 4.3 gives when it is applied key by key
\* from NORMAL to the keys pressed so far (for the key sequences the table
\* covers), and it is one of the five modes.
C8_ModeFollowsTable ==
  Quiet /\ hist.onTable =>
    /\ state.mode = hist.tableMode
    /\ state.mode \in AppModes

\* C9: the second d of dd in NORMAL mode removes from the collection the
\* request at selectedIndex of the filtered view, and nothing else; with no
\* request at that position it removes nothing.
C9_DeletesSelectedOfView ==
  [][KeyDown("d") /\ state.mode = "normal" /\ kbd.keySequence = "d" =>
       LET view == FilteredRequests(World)
           sel == state.selectedIndex
       IN IF sel < Len(view)
            THEN state'.requests =
                   FilterSeq(state.requests, Range(state.requests) \ {view[sel + 1]})
            ELSE state'.requests = state.requests]_vars

\* C10: r pressed in NORMAL mode while the sequence buffer holds a d whose
\* timeout has not run out empties the collection and sets selectedIndex to 0.
C10_DrClearsAll ==
  [][KeyDown("r") /\ state.mode = "normal"
       /\ kbd.keySequence = "d" /\ kbd.timer = "clear" =>
         state'.requests = <<>> /\ state'.selectedIndex = 0]_vars


\* The Network.getResponseBody commands in flight for an id.
FetchesInFlight(requestId) ==
  {k \in DOMAIN calls : calls[k].kind = "fetch" /\ calls[k].id = requestId}

\* C11: for every request id at most one Network.getResponseBody command is
\* in flight at a time, navigations (which clear the in-flight set) included:
\* a call made while a fetch of the id is in flight sends no second command.
C11_OneFetchInFlight ==
  \A requestId \in {calls[k].id : k \in DOMAIN calls} :
    Cardinality(FetchesInFlight(requestId)) <= 1


\* A fetchResponseBodyLazy call made for request record o has not resolved.
Waiting(o) == \E k \in DOMAIN calls : calls[k].req = o

\* C12: every fetchResponseBodyLazy call resolves in the end, whether the
\* command succeeds or fails, the calls that joined a fetch in flight too.
C12_EveryCallResolves ==
  \A o \in 1..FetchMaxObjs : Waiting(o) ~> ~Waiting(o)


\* C13: when Network.getResponseBody fails for a call, nothing is stored for
\* the id, neither in the body cache nor in the request record (so that the
\* next render of the request fetches again), and the id is no longer marked
\* in flight.
C13_FailureStoresNothing ==
  [][\A k \in 1..MaxCalls :
       GetResponseBodyReturns(k, "fail") =>
         /\ \A e \in capture'.responseBodyCache : e[1] # calls[k].id
         /\ calls[k].id \notin capture'.fetchingBodies
         /\ objs'[calls[k].req].responseBody = Undefined]_vars


\* C14: a failed attachment attempt is retried while fewer than MAX_RETRIES
\* retries were made since the last success or detach, after a delay of 1000,
\* 2000 and 4000 ms (never above 5000 ms); a failure after the last retry
\* sets no timer and shows an error message, and an error message has no
\* timer that removes it.
C14_BackoffThenError ==
  /\ [](/\ capture.retryCount \in 0..MAX_RETRIES
        /\ \A i \in DOMAIN conn.timers :
             conn.timers[i].kind = "retry" =>
               conn.timers[i].delay \in {1000, 2000, 4000}
        /\ capture.message.type = "error" => ~capture.message.timer)
  /\ [][hist'.op = "attachFailed" =>
          IF capture.retryCount < MAX_RETRIES
            THEN /\ capture'.retryCount = capture.retryCount + 1
                 /\ conn'.timers =
                      Append(conn.timers,
                             [kind |-> "retry",
                              delay |-> 1000 * 2^capture.retryCount])
            ELSE /\ capture'.retryCount = capture.retryCount
                 /\ conn'.timers = conn.timers
                 /\ capture'.message = [type |-> "error", timer |-> FALSE]]_vars

\* The attempt after the third retry has failed: the error is shown and no
\* retry is left.
C14_RetriesExhausted ==
  /\ hist.op = "attachFailed"
  /\ capture.retryCount = MAX_RETRIES
  /\ capture.message.type = "error"
  /\ \A i \in DOMAIN conn.timers : conn.timers[i].kind # "retry"


\* C15: an attachment attempt that fails because another debugger holds the
\* target shows an error message at once and sets no retry timer.
C15_ConflictNotRetried ==
  [][hist'.op = "attachFailed" /\ conn.target = "other" =>
       /\ capture'.message.type = "error"
       /\ conn'.timers = conn.timers]_vars


\* C16: at most one attachment attempt is in flight, and isAttaching tells
\* whether one is; a retry timer, the detach timer, a panel-shown event or
\* the answer to the probe of ensureAttached that comes while an attempt is
\* in progress starts no attempt and sends no command.
C16_OneAttemptInFlight ==
  /\ [](/\ Len(conn.attempts) <= 1
        /\ capture.isAttaching <=> conn.attempts # <<>>)
  /\ [][capture.isAttaching
          /\ hist'.op \in {"retry", "reattach", "shown", "ensured"} =>
            /\ conn'.attempts = conn.attempts
            /\ conn'.ensuring <= conn.ensuring]_vars

\* A retry timer or the detach timer has fired while an attempt was in
\* progress, and no second attempt was started.
C16_CallSuppressed ==
  /\ hist.op \in {"retry", "reattach"}
  /\ ~hist.started
  /\ capture.isAttaching
  /\ Len(conn.attempts) = 1


\* What handleDebuggerDetach leaves: no request, no pending request, no
\* cached body, no id marked in flight, no main frame, retryCount 0, and the
\* 250 ms timer set.
DetachResets ==
  /\ state'.requests = <<>>
  /\ capture'.pendingRequests = {}
  /\ capture'.responseBodyCache = {}
  /\ capture'.fetchingBodies = {}
  /\ capture'.mainFrameId = Null
  /\ capture'.retryCount = 0
  /\ conn'.timers = Append(conn.timers, [kind |-> "reattach", delay |-> 250])

\* C17, as the spec states it: a detach notification resets the collection,
\* the caches, the main frame and the retry counter, and after it an
\* attachment attempt is started in the end.
C17_DetachStartsAttempt ==
  /\ [][hist'.op = "detach" => DetachResets]_vars
  /\ (hist.op = "detach") ~> hist.started


\* C17, amended: as above, but what follows the detach in the end is a new
\* attachment attempt or the success of the attempt that was in progress
\* when the 250 ms timer fired (attachDebugger then starts none).
C17_DetachResetsAndReattaches ==
  /\ [][hist'.op = "detach" => DetachResets]_vars
  /\ (hist.op = "detach") ~> (hist.started \/ hist.op = "attachSucceeded")

\* The 250 ms timer of a detach that emptied the collection has started an
\* attachment attempt.
C17_ReattachStarted ==
  /\ hist.op = "reattach"
  /\ hist.started
  /\ objs # <<>>
  /\ state.requests = <<>>
  /\ capture.retryCount = 0


\* C18: a g pressed in NORMAL mode right after another g (no key between
\* them) sets selectedIndex to 0 when the first g's 1000 ms timer is still
\* running, and changes nothing of the selection when it has run out.
C18_GgJumpsToTop ==
  [][KeyDown("g") /\ state.mode = "normal" /\ hist.afterG =>
       IF kbd.timer = "clear"
         THEN pendingUpdates' = Append(pendingUpdates, [selectedIndex |-> 0])
         ELSE /\ pendingUpdates' = pendingUpdates
              /\ state'.selectedIndex = state.selectedIndex]_vars


\* The keys that leave a mode: q, and in COPY mode also Escape.
LeaveKeys(mode) == IF mode = "copy" THEN {"q", "Escape"} ELSE {"q"}

\* A call that leaves the mode waits for the frame: in INSPECT mode only q
\* writes the mode, in the other modes every call that writes it writes
\* NORMAL.
LeavePending ==
  \E i \in DOMAIN pendingUpdates :
    /\ "mode" \in DOMAIN pendingUpdates[i]
    /\ pendingUpdates[i].mode = "normal"

\* C19: q (in COPY mode also Escape) pressed in SEARCH, FILTER, INSPECT or
\* COPY mode queues an update with mode NORMAL, and the frame that applies
\* it leaves the mode NORMAL; from INSPECT it also leaves inspectFocus
\* HEADERS and isInspectExpanded false.
C19_QLeadsToNormal ==
  /\ [][\A key \in LeaveKeys(state.mode) :
          KeyDown(key) /\ state.mode # "normal" =>
            /\ Len(pendingUpdates') = Len(pendingUpdates) + 1
            /\ pendingUpdates'[Len(pendingUpdates')].mode = "normal"]_vars
  /\ [][RafFlush /\ state.mode # "normal" /\ LeavePending =>
          /\ state'.mode = "normal"
          /\ state.mode = "inspect" =>
               /\ state'.inspectFocus = "headers"
               /\ ~state'.isInspectExpanded]_vars


\* C20: whenever the mode is INSPECT, inspectFocus is the focus of the
\* preview tab (headers to HEADERS, response to RESPONSE, preview to
\* PREVIEW): Enter enters INSPECT at the focus of the active tab and the
\* keys of INSPECT mode move both together.
C20_FocusMatchesTab ==
  state.mode = "inspect" => state.inspectFocus = FocusOfTab(state.previewTab)

\* The requests array of the snapshot the finished-batch callback closes
\* over (const state = getState(); state.requests), as it is now.
SnapshotRequests == Deref(World, capture.batchRequests)

\* C21: a snapshot returned by getState() is not changed by later store
\* operations or capture events (the array of the snapshot the batch callback
\* holds stays as it was while the callback waits), and what a collaborator
\* does to a snapshot does not change the store's state (a responseReceived,
\* finished or failed event, handled on a snapshot, leaves the records of
\* the collection as they were).
C21_SnapshotsIsolated ==
  /\ [][capture.batchScheduled /\ capture'.batchScheduled
          => SnapshotRequests' = SnapshotRequests]_vars
  /\ [][hist'.op \in {"response", "finished", "failed"} => Held' = Held]_vars

\* C22: when the memo cache holds the result of a getFilteredRequests call
\* for the requests, the query and the filter set of the store, and a frame's
\* flush leaves all three as they are, the getFilteredRequests calls of the
\* flush's subscribers find the cache valid: they return the cached array
\* and compute nothing.
C22_StableWhenUnchanged ==
  [][/\ RafFlush
     /\ CacheValid(World)
     /\ Held' = Held
     /\ state'.searchQuery = state.searchQuery
     /\ state'.filters = state.filters
     => CacheValid(ApplyMerged(World))]_vars

\* The last node of the subtree of the n-th node: the nodes that follow it
\* with a greater level are its descendants.
SubtreeEnd(nodes, n) ==
  CHOOSE m \in n..Len(nodes) :
    /\ \A i \in (n + 1)..m : nodes[i].level > nodes[n].level
    /\ m < Len(nodes) => nodes[m + 1].level <= nodes[n].level

\* What a toggle of the n-th node makes of the sequence old: the node itself
\* with the flag flipped; right after it its first direct child when it is
\* now expanded (and has a child), no descendant when it is now collapsed;
\* before it and after its subtree the nodes of old, in their order.
ToggleShape(old, new, n) ==
  /\ n \in DOMAIN new
  /\ new[n] = [old[n] EXCEPT !.isExpanded = ~@]
  /\ SubSeq(new, 1, n - 1) = SubSeq(old, 1, n - 1)
  /\ SubSeq(new, SubtreeEnd(new, n) + 1, Len(new))
       = SubSeq(old, SubtreeEnd(old, n) + 1, Len(old))
  /\ IF new[n].isExpanded
       THEN old[n].value.entries # <<>> =>
              /\ n + 1 \in DOMAIN new
              /\ new[n + 1].level = old[n].level + 1
              /\ new[n + 1].key = old[n].value.entries[1][1]
              /\ new[n + 1].value = old[n].value.entries[1][2]
       ELSE SubtreeEnd(new, n) = n

\* C23: after the expansion flag of a container node is toggled and the data
\* is flattened again, the node is immediately followed by its first direct
\* child when it is expanded, no node is a descendant of it when it is
\* collapsed, and the nodes outside its subtree are the same, in the same
\* order, as before.
C23_ToggleReflattens ==
  [][\A n \in 1..MaxNodes :
       NodeClick(n) => ToggleShape(viewer.nodes, viewer'.nodes, n)]_vars

\* The finished-batch callbacks that wait for a frame.
BatchCallbacks == Cardinality({i \in DOMAIN rafQueue : rafQueue[i] = "batch"})

\* C24: a finished event updates nothing in the store and notifies nobody,
\* and at most one batch callback waits for the frame however many finished
\* events arrive; the callback makes one setState call with the request
\* collection for all of them, and the flush that applies it notifies the
\* subscribers once.
C24_FinishedCoalesced ==
  /\ [][hist'.op = "finished" =>
          /\ pendingUpdates' = pendingUpdates
          /\ state' = state
          /\ hist'.notified = 0
          /\ BatchCallbacks' <= 1]_vars
  /\ [][hist'.op = "batch" =>
          /\ Len(pendingUpdates') = Len(pendingUpdates) + 1
          /\ DOMAIN pendingUpdates'[Len(pendingUpdates')] = {"requests"}
          /\ hist'.notified = 0
          /\ capture'.pendingUIUpdates = {}
          /\ BatchCallbacks' = 0]_vars
  /\ [][hist'.op = "flush" => hist'.notified = 1]_vars

\* The batch callback has run for two finished events that arrived since the
\* frame before, and one setState call waits for the flush.
C24_TwoFinishedOneUpdate ==
  /\ hist.op = "batch"
  /\ hist.batched = 2
  /\ Len(pendingUpdates) = 1

\* C25: a request that was in the collection when it was cleared (main-frame
\* navigation, detach) is not in the collection at any later point.
C25_ClearedStayOut == Range(state.requests) \cap hist.cleared = {}

\* C26: no two requests of the collection have the same id.
C26_IdsUnique ==
  \A i, j \in DOMAIN state.requests :
    i # j => objs[state.requests[i]].id # objs[state.requests[j]].id

\* The request record that is selected: the one at selectedIndex in the
\* filtered view, 0 when there is none.
SelectedRecord ==
  IF state.selectedIndex + 1 \in DOMAIN FilteredRequests(World)
    THEN FilteredRequests(World)[state.selectedIndex + 1]
    ELSE 0

\* C27: when a lazy body fetch completes (the command answers or fails, a
\* waiting call finds the body cached), what it writes into the response
\* panel or the preview panel is the body of the request selected then.
C27_BodyOfSelected ==
  [][hist'.op \in {"body", "bodyFailed", "poll"} =>
       /\ preview'.response # preview.response =>
            preview'.response.of = SelectedRecord'
       /\ preview'.json # preview.json =>
            preview'.json.of = SelectedRecord']_vars


\* The keys that continue no sequence the handler knows (gg, dd, dr, yy, yp).
StrangerKeys == Keys \ {"g", "d", "r"}

\* C28: a key that cannot continue any known sequence, pressed while the
\* sequence buffer holds a prefix, empties the buffer at once (so that g, j, g
\* is no gg).
C28_StrangerEmptiesBuffer ==
  [][\A key \in StrangerKeys :
       kbd.keySequence # "" /\ KeyDown(key) => kbd'.keySequence = ""]_vars


\* C29: in INSPECT mode with PREVIEW focus, a y starts the 300 ms wait (no
\* copy yet) and the timeout then copies the value, once; a y within the wait
\* copies the node as JSON and a p within the wait copies the path, neither
\* copying the value; the sequence buffer is empty after each of the three.
C29_YankSequences ==
  [][/\ JsonKeyDown("y") /\ kbd.timer # "yank" =>
          /\ kbd' = [keySequence |-> "y", timer |-> "yank"]
          /\ hist'.copied = <<>>
     /\ YankTimeout =>
          hist'.copied = <<"value">> /\ kbd'.keySequence = ""
     /\ JsonKeyDown("y") /\ kbd.timer = "yank" =>
          /\ hist'.copied = <<"json">>
          /\ kbd' = [keySequence |-> "", timer |-> "none"]
     /\ JsonKeyDown("p") /\ kbd.timer = "yank" =>
          /\ hist'.copied = <<"path">>
          /\ kbd' = [keySequence |-> "", timer |-> "none"]]_vars


\* getFilteredRequests: whether a call made on W builds the Fuse index anew.
RebuildsIndex(W) ==
  /\ ~CacheValid(W)
  /\ ~W.fuse.built \/ W.fuse.lastLength # Len(W.state.requests)

\* C30: the subscribers of a frame's flush have the Fuse index built anew
\* only when the number of requests differs from the number the index was
\* last built from (a change of searchQuery alone builds nothing).
C30_RebuiltOnCountChange ==
  [][RafFlush /\ RebuildsIndex(ApplyMerged(World))
       => Len(state'.requests) # fuse.lastLength]_vars


\* C31: with a filter set that is not empty, every request a
\* getFilteredRequests() call returns has a resource type of the set; with an
\* empty filter set and an empty search query the call returns all requests
\* in insertion order.
C31_ViewWithinFilter ==
  LET view == FilteredRequests(World)
  IN /\ state.filters # {} =>
          \A i \in DOMAIN view : objs[view[i]].type \in state.filters
     /\ state.filters = {} /\ state.searchQuery = "" => view = state.requests


\* C32: an error message, once shown, stays shown until an attachment
\* succeeds (no timer, no arriving request and no info message removes or
\* replaces it), whereas an info or a success message has its auto-clear
\* timer armed and is removed when a request arrives.
C32_ErrorStays ==
  /\ [][capture.message.type = "error" /\ hist'.op # "attachSucceeded"
          => capture'.message.type = "error"]_vars
  /\ [](capture.message.type = "error" => ~capture.message.timer)
  /\ [](capture.message.type \in {"info", "success"} => capture.message.timer)
  /\ [][capture.message.type \in {"info", "success"} /\ hist'.op = "initiated"
          => capture'.message.type = "none"]_vars


\* C33: in every state of the store flattenedJsonNodes is the flattening of
\* the value the viewer shows under the jsonExpanded map of that state (no
\* node below a collapsed path, every entry of an expanded container, in
\* structural order).
C33_NodesMatchExpanded ==
  state.flattenedJsonNodes =
    FlattenJson(state.jsonExpanded, viewer.currentData, "", 0)


\* The node of which the n-th node is an entry: the nearest node before it
\* that lies one level higher; 0 for an entry of the document itself.
StructuralParent(nodes, n) ==
  LET above == {m \in 1..(n - 1) : nodes[m].level = nodes[n].level - 1}
  IN IF above = {} THEN 0 ELSE CHOOSE m \in above : \A k \in above : k <= m

\* C34: h on a primitive node (collapseCurrentNode) changes no expansion flag
\* and sets jsonSelectedIndex to the index of the node's structural parent,
\* whatever the shape of the value and of its keys; on a primitive node that
\* has no parent node it changes nothing.
C34_LeafMovesToParent ==
  [][LET nodes == state.flattenedJsonNodes
         n == state.jsonSelectedIndex + 1
         parent == StructuralParent(nodes, n)
     IN /\ JsonKeyDown("h")
        /\ HasCurrentNode(World)
        /\ ~IsContainer(nodes[n].value)
        => /\ state'.jsonExpanded = state.jsonExpanded
           /\ pendingUpdates' =
                IF parent = 0 THEN pendingUpdates
                ELSE Append(pendingUpdates, [jsonSelectedIndex |-> parent - 1])]_vars


\* The h of the claim: pressed in INSPECT mode with HEADERS focus while a
\* header of a section that is not collapsed is selected.
CollapsesSection(section) ==
  /\ HeadersKeyDown("h")
  /\ state.mode = "inspect" /\ state.inspectFocus = "headers"
  /\ HasCurrentHeader(World)
  /\ CurrentSection(World) = section
  /\ section \notin headersList.collapsedSections

\* C35: in INSPECT mode with HEADERS focus, h on a selected header removes
\* every item of the header's section from the navigable list and leaves the
\* header selection index within the list; l on a header of a collapsed
\* section expands the section, its items being in the list afterwards.
C35_CollapseRemovesItems ==
  /\ [][\A section \in HeaderSections :
          CollapsesSection(section)
          => /\ \A i \in DOMAIN headersList'.headers :
                   headersList'.headers[i].section # section
             /\ \/ headersList'.headers = <<>>
                \/ headersList'.selectedIndex + 1 \in DOMAIN headersList'.headers]_vars
  /\ [][\A section \in HeaderSections :
          /\ HeadersKeyDown("l")
          /\ state.mode = "inspect" /\ state.inspectFocus = "headers"
          /\ HasCurrentHeader(World)
          /\ CurrentSection(World) = section
          /\ section \in headersList.collapsedSections
          => /\ section \notin headersList'.collapsedSections
             /\ \E i \in DOMAIN headersList'.headers :
                   headersList'.headers[i].section = section]_vars


\* The table's frame callback renders a change of the selection in the
\* non-expanded list, the selected row being one of the view's rows.
RendersSelection ==
  /\ RafTable
  /\ table.lastSelectedIndex # state.selectedIndex
  /\ ~state.isInspectExpanded
  /\ state.selectedIndex < Len(FilteredRequests(World))

\* C36: when a selection change is rendered in the non-expanded list, the
\* scroll offset stays as it is if the selected row lies fully inside the
\* viewport, becomes the row's top if the row begins above the viewport, and
\* otherwise puts the row's bottom at the viewport's bottom; after the render
\* the selected index lies in the window [visibleStart, visibleEnd) of
\* materialised rows, and 0 <= visibleStart <= visibleEnd <= total.
C36_SelectedRowInWindow ==
  [][LET heightToUse == table.actualRowHeight
         selectedTop == state.selectedIndex * heightToUse
         viewportTop == table.containerScrollTop
         viewportHeight == table.clientHeight - headerHeight
         above == selectedTop < viewportTop
         below == ~above /\ selectedTop + heightToUse > viewportTop + viewportHeight
     IN RendersSelection
        => /\ ~above /\ ~below => table'.containerScrollTop = viewportTop
           /\ above => table'.containerScrollTop = selectedTop
           /\ below => table'.containerScrollTop + viewportHeight
                         = selectedTop + heightToUse
           /\ 0 <= table'.visibleStart
           /\ table'.visibleStart <= table'.visibleEnd
           /\ table'.visibleEnd <= Len(FilteredRequests(World))
           /\ table'.visibleStart <= state.selectedIndex
           /\ state.selectedIndex < table'.visibleEnd]_vars


\* The selectedIndex the store holds once the calls that wait for a frame
\* are committed.
SelectionToBe ==
  LET merged == MergeUpdates(pendingUpdates)
  IN IF "selectedIndex" \in DOMAIN merged THEN merged.selectedIndex
     ELSE state.selectedIndex

\* C37: in NORMAL mode every press of j with a row below the selection moves
\* the selection by exactly one row, whether or not a frame has run since
\* the press before: n presses from row i end on row i + n.
C37_EachPressMovesOneRow ==
  [][/\ KeyDown("j")
     /\ state.mode = "normal"
     /\ SelectionToBe + 1 < Len(FilteredRequests(World))
     => SelectionToBe' = SelectionToBe + 1]_vars


\* C38: whenever the mode is not INSPECT, isInspectExpanded is false and
\* inspectFocus is HEADERS.
C38_PanelResetOutsideInspect ==
  state.mode # "inspect"
    => ~state.isInspectExpanded /\ state.inspectFocus = "headers"


\* C39: the timer of a y copies the value only while the mode is still
\* INSPECT with PREVIEW focus: when it fires after q or Shift+H has taken the
\* store out of that state, nothing is copied.
C39_YankOnlyInPanel ==
  [][/\ YankTimeout
     /\ ~(state.mode = "inspect" /\ state.inspectFocus = "preview")
     => hist'.copied = <<>>]_vars

=============================================================================
